---- MODULE Spec2Model ----
(***************************************************************************)
(* A model of src/src/partr.c, the parallel task runtime: the multiqueue   *)
(* of task heaps, the pools of synchronization trees, the sticky queues,   *)
(* the fiber trampoline task_wrapper, run_next, jl_task_yield, and the     *)
(* primitives jl_task_new/spawn/sync, jl_task_new_multi/spawn_multi and    *)
(* jl_task_wait/notify.                                                    *)
(*                                                                         *)
(* Workers are the OS threads 0..jl_n_threads-1.  A worker executes the    *)
(* code of one task at a time; its position (pc, ip) is the machine        *)
(* context of that thread, and task[t].ctx is what jl_setjmp saved for     *)
(* task t, where jl_longjmp in run_next continues.  Each action is one     *)
(* atomic block of a function of the source: a critical section, an        *)
(* atomic operation, or straight-line code between two of them.            *)
(*                                                                         *)
(* The host program (the code running in the root task of worker 0 and the *)
(* callables of the tasks it creates) is one of the small programs of      *)
(* Scenarios, chosen in Init.                                              *)
(***************************************************************************)
EXTENDS Integers, Sequences, FiniteSets, TLC

(***************************************************************************)
(* Bounds of the model.  jl_n_threads, GRAIN_K, ARRIVERS_P, REDUCERS_FRAC  *)
(* are set outside partr.c (the host and the build options); heap_c (4 in  *)
(* the source, line 41) and tasks_per_heap (129, line 44) are scaled down: *)
(* with heap_d = 8 a heap of 11 slots has a root, its 8 children and two   *)
(* children of slot 1.  Count is the `count` the host passes to            *)
(* jl_task_new_multi.                                                      *)
(***************************************************************************)
jl_n_threads == 2
GRAIN_K == 1
ARRIVERS_P == 1
REDUCERS_FRAC == 1
heap_c == 1
tasks_per_heap == 11
Count == 3

(* program constants *)
heap_d == 8
INT16_MAX == 32767
NULL == 0

heap_p == heap_c * jl_n_threads
NGrains == GRAIN_K * jl_n_threads

Workers == 0 .. (jl_n_threads - 1)
HeapIdx == 0 .. (heap_p - 1)
Slots == 0 .. (tasks_per_heap - 1)

(* Task 1 is the root task of worker 0 (the host's main task); 2 and 3 are *)
(* created by jl_task_new; a grain fan-out uses 2 .. NGrains+1.  The other *)
(* tasks are the ones a host created and spawned before (they fill heaps). *)
Main == 1
NTasks == tasks_per_heap + 3
Tasks == 1 .. NTasks

TASK_IS_STICKY == "STICKY"
TASK_IS_DETACHED == "DETACHED"
SettingBits == {TASK_IS_STICKY, TASK_IS_DETACHED}

(* task states (done_sym, failed_sym, runnable_sym) *)
runnable_sym == "runnable"
done_sym == "done"
failed_sym == "failed"

(***************************************************************************)
(* Values (jl_value_t* ): the C null pointer, jl_nothing, a boxed integer, *)
(* and the value the reduction callable returns when it is invoked on the  *)
(* argument vector rargs.                                                  *)
(***************************************************************************)
NullV == [k |-> "null", v |-> 0]
jl_nothing == [k |-> "nothing", v |-> 0]
IntV(n) == [k |-> "int", v |-> n]
NoRet == [k |-> "noret", v |-> 0]

(* the value f(arg) of the callable of task t: f(x) = x + 1 on 40 + t, or  *)
(* for a grain f(start, end) = start + (start+1) + ... + (end-1)           *)
RECURSIVE SumRange(_, _)
SumRange(s, e) == IF s >= e THEN 0 ELSE s + SumRange(s + 1, e)

(***************************************************************************)
(* The host programs.  An operation is a tuple: <<"new", t>> is            *)
(* t = jl_task_new(f), <<"spawn", t>> is jl_task_spawn(t, sticky, detach)  *)
(* with the scenario's flags, <<"sync", t>> is jl_task_sync(t),            *)
(* <<"yield">> is jl_task_yield(1), <<"wait">> and <<"notify">> are        *)
(* jl_task_wait(c) and jl_task_notify(c) on the one condition c,           *)
(* <<"new_multi", t>> is t = jl_task_new_multi(f, Count, rargs) and        *)
(* <<"spawn_multi", t>> is jl_task_spawn_multi(t).                         *)
(***************************************************************************)
Scenarios ==
    {[name |-> "single", sticky |-> s, detach |-> d, throws |-> e, red |-> FALSE] :
        s \in BOOLEAN, d \in BOOLEAN, e \in BOOLEAN}
    \cup {[name |-> "join", sticky |-> FALSE, detach |-> FALSE, throws |-> e, red |-> FALSE] :
        e \in BOOLEAN}
    \cup {[name |-> "cond", sticky |-> FALSE, detach |-> FALSE, throws |-> FALSE, red |-> FALSE]}
    \cup {[name |-> "multi", sticky |-> FALSE, detach |-> FALSE, throws |-> FALSE, red |-> r] :
        r \in BOOLEAN}

VARIABLES
    scn,     \* the host program that runs (never changes)
    task,    \* task[t]: the fields of jl_task_t t
    wk,      \* wk[w]: worker w: ptls->current_task and the thread's position
    heaps,   \* heaps[h]: taskheap_t
    sticky,  \* sticky[w]: sticky_taskqs[w].head
    cond,    \* the condition c: notify and waitq.head
    arrp,    \* next_arriver and arriverpool
    redp,    \* next_reducer and reducerpool
    gh,      \* history of the run, read by the properties only
    bar,     \* the barrier of the specification SpecBarrier (below)
    loc      \* loc[w]: the locals of the function worker w is inside, in the
             \* specifications of single functions (below)

vars == <<scn, task, wk, heaps, sticky, cond, arrp, redp, gh, bar, loc>>

Body(t) ==
    CASE scn.name = "single" ->
            IF t = Main THEN << <<"new", 2>>, <<"spawn", 2>>, <<"sync", 2>> >>
            ELSE IF t = 2 THEN << <<"yield">> >>
            ELSE << >>
      [] scn.name = "join" ->
            IF t = Main THEN << <<"new", 2>>, <<"new", 3>>, <<"spawn", 2>>,
                                <<"spawn", 3>>, <<"sync", 2>> >>
            ELSE IF t = 3 THEN << <<"sync", 2>> >>
            ELSE << >>
      [] scn.name = "cond" ->
            IF t = Main THEN << <<"new", 2>>, <<"new", 3>>, <<"spawn", 2>>,
                                <<"spawn", 3>>, <<"notify">>, <<"wait">> >>
            ELSE << <<"wait">> >>
      [] OTHER ->
            IF t = Main THEN << <<"new_multi", 2>>, <<"spawn_multi", 2>>, <<"sync", 2>> >>
            ELSE << >>

Throws(t) == scn.throws /\ t = 2

(* a jl_task_spawn that drops the detach request *)
RequestedNoDetach == IF scn.sticky THEN {TASK_IS_STICKY} ELSE {}

Requested == (IF scn.sticky THEN {TASK_IS_STICKY} ELSE {})
             \cup (IF scn.detach THEN {TASK_IS_DETACHED} ELSE {})

(***************************************************************************)
(* multiq                                                                  *)
(***************************************************************************)
Swap(ts, i, j) == [ts EXCEPT ![i] = ts[j], ![j] = ts[i]]

RECURSIVE sift_up(_, _, _)
sift_up(ts, idx, tk) ==
    IF idx > 0
    THEN LET parent == (idx - 1) \div heap_d IN
         IF tk[ts[idx]].prio <= tk[ts[parent]].prio
         THEN sift_up(Swap(ts, parent, idx), parent, tk)
         ELSE ts
    ELSE ts

RECURSIVE sift_down(_, _, _, _), sift_down_from(_, _, _, _, _)
(* a sift_down that swaps with the children but does not descend *)
sift_down_one_level(ts, ntasks, idx, tk) ==
    IF idx < ntasks THEN sift_down_from(ts, 0, idx, heap_d * idx + 1, tk) ELSE ts

sift_down(ts, ntasks, idx, tk) ==
    IF idx < ntasks THEN sift_down_from(ts, ntasks, idx, heap_d * idx + 1, tk) ELSE ts

(* the for loop of sift_down, from `child` on *)
sift_down_from(ts, ntasks, idx, child, tk) ==
    IF child < tasks_per_heap /\ child <= heap_d * idx + heap_d
    THEN IF ts[child] # NULL /\ tk[ts[child]].prio <= tk[ts[idx]].prio
         THEN sift_down_from(sift_down(Swap(ts, idx, child), ntasks, child, tk),
                             ntasks, idx, child + 1, tk)
         ELSE sift_down_from(ts, ntasks, idx, child + 1, tk)
    ELSE ts

(* multiq_init *)
InitHeaps ==
    [h \in HeapIdx |-> [tasks |-> [i \in Slots |-> NULL], ntasks |-> 0, prio |-> INT16_MAX,
                         lock |-> 0 - 1]]

(* multiq_insert(task, priority) on the heap rn that cong() drew and whose *)
(* lock it got; tk is the task table after task->prio = priority.  The     *)
(* result is the heaps and the return code.                                *)
multiq_insert(hs, tk, rn, t) ==
    IF hs[rn].ntasks >= tasks_per_heap
    THEN [heaps |-> hs, rc |-> 0 - 1]
    ELSE LET n == hs[rn].ntasks
             ts == sift_up([hs[rn].tasks EXCEPT ![n] = t], n, tk)
             prio == hs[rn].prio
         IN [heaps |-> [hs EXCEPT ![rn].tasks = ts, ![rn].ntasks = n + 1,
                                  ![rn].prio = IF tk[t].prio < prio THEN tk[t].prio ELSE prio],
             rc |-> 0]

(* one round of the loop of multiq_deletemin with the draws rn1, rn2: the  *)
(* heap it commits to, or -1 when the round continues                      *)
deletemin_pick(hs, rn1, rn2) ==
    LET prio1 == hs[rn1].prio
        prio2 == hs[rn2].prio
    IN IF prio1 > prio2 THEN rn2
       ELSE IF prio1 = prio2 /\ prio1 = INT16_MAX THEN 0 - 1
       ELSE rn1

(* lines 163-172 of multiq_deletemin on the heap rn it committed to *)
multiq_deletemin(hs, tk, rn) ==
    LET n == hs[rn].ntasks - 1
        t == hs[rn].tasks[0]
        ts1 == [[hs[rn].tasks EXCEPT ![0] = hs[rn].tasks[n]] EXCEPT ![n] = NULL]
        ts2 == IF n > 0 THEN sift_down(ts1, n, 0, tk) ELSE ts1
    IN [heaps |-> [hs EXCEPT ![rn].tasks = ts2, ![rn].ntasks = n,
                             ![rn].prio = IF n > 0 THEN tk[ts2[0]].prio ELSE INT16_MAX],
        task |-> t]

(***************************************************************************)
(* sync trees                                                              *)
(***************************************************************************)
(* what jl_malloc_aligned returns is not initialized: a counter holds      *)
(* UNINIT until it is written, and a read of it yields any of Garbage      *)
UNINIT == INT16_MAX + 1
Garbage == {0 - 1, 0, 1}

num_arriver_tree_nodes == (GRAIN_K * jl_n_threads) - 1
num_reducer_tree_nodes == (2 * GRAIN_K * jl_n_threads) - 1

(* the loop of lines 211-214 *)
RECURSIVE SquareTimes(_, _)
SquareTimes(n, i) == IF i < ARRIVERS_P THEN SquareTimes(n * n, i + 1) ELSE n
num_arrivers == SquareTimes(GRAIN_K * jl_n_threads, 1) + 1
num_reducers == num_arrivers * REDUCERS_FRAC

(* synctreepool_init *)
InitArrivers ==
    [next |-> 0,
     pool |-> [i \in 0 .. (num_arrivers - 1) |->
                 [next_avail |-> IF i = num_arrivers - 1 THEN 0 - 1 ELSE i + 1,
                  tree |-> [j \in 0 .. (num_arriver_tree_nodes - 1) |-> UNINIT]]]]

InitReducers ==
    [next |-> IF num_reducers > 0 THEN 0 ELSE 0 - 1,
     pool |-> [i \in 0 .. (num_reducers - 1) |->
                 [next_avail |-> IF i = num_reducers - 1 THEN 0 - 1 ELSE i + 1,
                  tree |-> [j \in 0 .. (num_reducer_tree_nodes - 1) |-> NoRet]]]]

(* arriver_alloc / reducer_alloc, run without interference: the index of   *)
(* the element (-1: NULL) and the pool after it                            *)
tree_alloc(p) ==
    IF p.next = 0 - 1 THEN [pool |-> p, idx |-> 0 - 1]
    ELSE [pool |-> [p EXCEPT !.next = p.pool[p.next].next_avail], idx |-> p.next]

(* arriver_free / reducer_free with the value `zero` written to each node *)
tree_free(p, i, zero) ==
    [next |-> i,
     pool |-> [p.pool EXCEPT ![i] =
                 [next_avail |-> p.next, tree |-> [j \in DOMAIN p.pool[i].tree |-> zero]]]]

(* the value of fptr(mfunc, rargs, nrargs): the reduction callable applied  *)
(* to the elements of rargs, the vector the host gave jl_task_new_multi    *)
ApplyRArgs == [k |-> "apply_rargs", v |-> 0]

(* last_arriver / reduce, the declarations: grain idx of n starts at leaf  *)
(* idx + n - 1 with the value val                                          *)
arrive_start(n, idx, val) ==
    [aidx |-> idx + n - 1, ridx |-> idx + n - 1, val |-> val, verdict |-> ""]

(* one test of `while (aidx > 0)` and one round of the loop, of            *)
(* last_arriver (red = FALSE) or reduce (red = TRUE), on the counters cnt  *)
(* and the reducer nodes rt; g is what the read of a counter that was      *)
(* never written yields                                                    *)
ascent_step(st, cnt, rt, red, g) ==
    IF st.aidx > 0
    THEN LET a == (st.aidx - 1) \div 2
             arrived == IF cnt[a] = UNINIT THEN g ELSE cnt[a]
             cnt1 == [cnt EXCEPT ![a] = arrived + 1]
             r == (st.ridx - 1) \div 2
         IN IF arrived = 0
            THEN [st |-> [st EXCEPT !.aidx = a, !.verdict = "NOT_LAST"], cnt |-> cnt1, rt |-> rt]
            ELSE IF red
            THEN [st |-> [st EXCEPT !.aidx = a, !.ridx = r, !.val = ApplyRArgs],
                  cnt |-> cnt1, rt |-> [rt EXCEPT ![r] = ApplyRArgs]]
            ELSE [st |-> [st EXCEPT !.aidx = a], cnt |-> cnt1, rt |-> rt]
    ELSE [st |-> [st EXCEPT !.verdict = "LAST"], cnt |-> cnt, rt |-> rt]

(* jl_task_new_multi, lines 807-809: the range [start, end) of grain i of n *)
RECURSIVE grain_start(_, _, _)
grain_end(i, n, count) ==
    grain_start(i, n, count) + (count \div n) + (IF i < count % n THEN 1 ELSE 0)
grain_start(i, n, count) == IF i = 0 THEN 0 ELSE grain_end(i - 1, n, count)

(***************************************************************************)
(* tasks                                                                   *)
(***************************************************************************)
Ctx(pc, ip) == [pc |-> pc, ip |-> ip]

(* a task slot that jl_task_new has not yet allocated *)
NoTaskRec ==
    [exists |-> FALSE, state |-> runnable_sym, started |-> FALSE, settings |-> {},
     prio |-> 0, current_tid |-> 0 - 1, sticky_tid |-> 0 - 1, next |-> NULL,
     result |-> jl_nothing, red_result |-> jl_nothing, cq |-> NULL,
     grain_num |-> 0 - 1, parent |-> NULL, arr |-> 0 - 1, red |-> 0 - 1,
     start |-> 0, end |-> 0, ctx |-> Ctx("tw_start", 1)]

(* jl_task_new called by task `cur`; `settings` is never assigned, so the  *)
(* new task has whatever the allocation held: `garbage`                    *)
jl_task_new(cur, garbage) ==
    [NoTaskRec EXCEPT !.exists = TRUE, !.settings = garbage, !.parent = cur]

(* the root task of worker 0, set up by jl_init_root_task; nothing has     *)
(* been saved in its ctx, and a jump into it ends the process              *)
RootTask == [NoTaskRec EXCEPT !.exists = TRUE, !.started = TRUE, !.current_tid = 0,
                              !.ctx = Ctx("crash", 1)]

(* the value of the callable of task t *)
Val(tk, t) ==
    IF tk[t].grain_num >= 0 THEN IntV(SumRange(tk[t].start, tk[t].end)) ELSE IntV(40 + t + 1)

(* the end of the chain of next pointers from pt: the loop                 *)
(* while (pt->next) pt = pt->next; NULL when it never ends (a cycle)       *)
RECURSIVE ChainLast(_, _, _)
ChainLast(tk, pt, fuel) ==
    IF tk[pt].next = NULL THEN pt
    ELSE IF fuel = 0 THEN NULL
    ELSE ChainLast(tk, tk[pt].next, fuel - 1)

(* a queue that pushes t at the head instead *)
queue_push(tk, head, t) ==
    [head |-> t, task |-> [tk EXCEPT ![t].next = head], hang |-> FALSE]

(* append t to the intrusive queue with this head: the head and the tasks  *)
(* after it, and whether the walk hangs                                    *)
queue_append(tk, head, t) ==
    IF head = NULL THEN [head |-> t, task |-> tk, hang |-> FALSE]
    ELSE LET pt == ChainLast(tk, head, NTasks) IN
         IF pt = NULL THEN [head |-> head, task |-> tk, hang |-> TRUE]
         ELSE [head |-> head, task |-> [tk EXCEPT ![pt].next = t], hang |-> FALSE]

(* an enqueue_task that sends every task to the multiq *)
enqueue_task_unpinned(tk, hs, st, t) ==
    {[task |-> tk, heaps |-> multiq_insert(hs, tk, rn, t).heaps, sticky |-> st,
      stop |-> "",
      where |-> IF multiq_insert(hs, tk, rn, t).rc = 0 THEN "heap" ELSE "dropped"] :
       rn \in HeapIdx}

(***************************************************************************)
(* enqueue_task(t): every outcome, as the tasks, heaps and sticky queues   *)
(* after it; `stop` is "crash" when the assertion fails, "hang" when the   *)
(* walk of the sticky queue never ends, "" otherwise; `where` is the       *)
(* queue t went to.                                                        *)
(***************************************************************************)
enqueue_task(tk, hs, st, t) ==
    IF TASK_IS_STICKY \in tk[t].settings
    THEN IF tk[t].sticky_tid = 0 - 1
         THEN {[task |-> tk, heaps |-> hs, sticky |-> st, stop |-> "crash", where |-> "none"]}
         ELSE LET q == queue_append(tk, st[tk[t].sticky_tid], t) IN
              {[task |-> q.task, heaps |-> hs,
                sticky |-> [st EXCEPT ![tk[t].sticky_tid] = q.head],
                stop |-> IF q.hang THEN "hang" ELSE "", where |-> "sticky"]}
    ELSE {[task |-> tk, heaps |-> multiq_insert(hs, tk, rn, t).heaps, sticky |-> st,
           stop |-> "",
           where |-> IF multiq_insert(hs, tk, rn, t).rc = 0 THEN "heap" ELSE "dropped"] :
            rn \in HeapIdx}

(***************************************************************************)
(* the initial state: jl_init_threadinginfra has run, the threads have     *)
(* started, worker 0 runs the host's main task and the others are in       *)
(* run_next                                                                *)
(***************************************************************************)
IdleRec == [pc |-> "run_next", ip |-> 1, cur |-> NULL, qtask |-> NULL,
            aidx |-> 0, ridx |-> 0, val |-> NoRet]

InitGh ==
    [ret |-> [t \in Tasks |-> NoRet],          \* what the task's last jl_task_sync returned
     retstate |-> [t \in Tasks |-> ""],        \* the state of its target at that return
     rc |-> [t \in Tasks |-> 1],               \* the status of the task's last spawn (1: none)
     saved |-> [t \in Tasks |-> t # Main],     \* ctx holds the task's latest position
     badresume |-> FALSE,                      \* run_next jumped into a context not saved
     ranon |-> [t \in Tasks |-> {}],           \* the workers that resumed the task
     enq |-> [t \in Tasks |-> {}],             \* where enqueue_task put the task
     appended |-> [t \in Tasks |-> << >>],     \* the waiters appended to t's cq, in order
     drained |-> [t \in Tasks |-> << >>],      \* the waiters t's task_wrapper enqueued
     cqread |-> [t \in Tasks |-> FALSE],       \* t's task_wrapper detached t's cq
     lateappend |-> FALSE,                     \* a waiter was appended to a cq after its drain
     wappended |-> << >>,                      \* the waiters appended to c's waitq, in order
     wdrained |-> << >>,                       \* the tasks jl_task_notify enqueued, in order
     notified |-> FALSE,                       \* a jl_task_notify(c) has returned
     began |-> [t \in Tasks |-> FALSE],        \* it had returned when the task's jl_task_wait began
     lateblock |-> FALSE,                      \* such a jl_task_wait appended the task to the waitq
     arrived |-> [t \in Tasks |-> FALSE],      \* the grain began its ascent of the arriver
     verdict |-> [t \in Tasks |-> ""],         \* what its ascent ended with
     early |-> FALSE,                          \* somebody got past the parent before the barrier
     nmfail |-> FALSE,                         \* a jl_task_new_multi has returned NULL
     nmpre |-> <<{}, {}>>]                     \* the free arrivers and reducers before that call

(* no worker is inside one of the functions that the specifications of    *)
(* single functions run statement by statement                             *)
NoCall == [w \in Workers |-> [pc |-> "idle"]]

(* the program runs no barrier of SpecBarrier *)
NoBarrier == [G |-> 0, red |-> FALSE, fresh |-> FALSE, cnt |-> << >>, rt |-> << >>, g |-> << >>]

Init ==
    /\ scn \in Scenarios
    /\ task = [t \in Tasks |-> IF t = Main THEN RootTask ELSE NoTaskRec]
    /\ wk = [w \in Workers |->
               IF w = 0 THEN [IdleRec EXCEPT !.pc = "body", !.cur = Main] ELSE IdleRec]
    /\ heaps = InitHeaps
    /\ sticky = [w \in Workers |-> NULL]
    /\ cond = [notify |-> FALSE, head |-> NULL]
    /\ arrp = InitArrivers
    /\ redp = InitReducers
    /\ gh = InitGh
    /\ bar = NoBarrier
    /\ loc = NoCall

(* the operation of the host program the worker is at *)
AtOp(w, name) ==
    /\ wk[w].pc = "body"
    /\ wk[w].cur # NULL
    /\ wk[w].ip <= Len(Body(wk[w].cur))
    /\ Body(wk[w].cur)[wk[w].ip][1] = name

OpArg(w) == Body(wk[w].cur)[wk[w].ip][2]

CrashAll == [v \in Workers |-> [wk[v] EXCEPT !.pc = "crash"]]

(* the workers after worker w ran a step that ended in `stop` *)
AfterStep(w, stop, rec) ==
    IF stop = "crash" THEN CrashAll
    ELSE IF stop = "hang" THEN [wk EXCEPT ![w].pc = "hang"]
    ELSE [wk EXCEPT ![w] = rec]

Terminal(tk, t) == tk[t].state = done_sym \/ tk[t].state = failed_sym

(* t = jl_task_new(f) *)
TaskNew(w) ==
    /\ AtOp(w, "new")
    /\ \E garbage \in SUBSET SettingBits :
          task' = [task EXCEPT ![OpArg(w)] = jl_task_new(wk[w].cur, garbage)]
    /\ wk' = [wk EXCEPT ![w].ip = @ + 1]
    /\ UNCHANGED <<loc, bar, scn, heaps, sticky, cond, arrp, redp, gh>>

(* a jl_task_spawn that takes a failed insertion for a success *)
TaskSpawnIgnoresFull(w) ==
    /\ AtOp(w, "spawn")
    /\ task[OpArg(w)].exists
    /\ LET t == OpArg(w)
           me == wk[w].cur
           tk1 == [task EXCEPT ![t].settings = IF task[t].started THEN @ ELSE @ \cup Requested,
                               ![t].prio = w]
       IN \E rn \in HeapIdx :
            /\ task' = tk1
            /\ heaps' = multiq_insert(heaps, tk1, rn, t).heaps
            /\ gh' = [gh EXCEPT !.rc[me] = 0]
            /\ wk' = IF TASK_IS_STICKY \notin tk1[me].settings
                     THEN [wk EXCEPT ![w].pc = "sp_yield"]
                     ELSE [wk EXCEPT ![w].ip = @ + 1]
    /\ UNCHANGED <<loc, bar, scn, sticky, cond, arrp, redp>>

(* jl_task_spawn(t, sticky, detach), lines 749-763: up to the yield; a     *)
(* task the host never got from jl_task_new is the NULL pointer            *)
TaskSpawn(w) ==
    /\ AtOp(w, "spawn")
    /\ LET t == OpArg(w)
           me == wk[w].cur
           tk1 == [task EXCEPT ![t].settings = IF task[t].started THEN @ ELSE @ \cup Requested,
                               ![t].prio = w]
       IN IF ~task[t].exists
          THEN /\ gh' = [gh EXCEPT !.rc[me] = 0 - 1]
               /\ wk' = [wk EXCEPT ![w].ip = @ + 1]
               /\ UNCHANGED <<task, heaps>>
          ELSE \E rn \in HeapIdx :
                 LET r == multiq_insert(heaps, tk1, rn, t) IN
                 /\ task' = tk1
                 /\ heaps' = r.heaps
                 /\ gh' = [gh EXCEPT !.rc[me] = IF r.rc # 0 THEN 0 - 2 ELSE 0]
                 /\ wk' = IF r.rc # 0 THEN [wk EXCEPT ![w].ip = @ + 1]
                          ELSE IF TASK_IS_STICKY \notin tk1[me].settings
                               THEN [wk EXCEPT ![w].pc = "sp_yield"]
                               ELSE [wk EXCEPT ![w].ip = @ + 1]
    /\ UNCHANGED <<loc, bar, scn, sticky, cond, arrp, redp>>

(* jl_task_yield(requeue): the calls at lines 764, 867 and the host's own  *)
(* requeue, and at lines 909, 1020, 508 do not                             *)
YieldPcs == {"sp_yield", "sy_yield", "wt_yield", "sg_yield"}
Requeues(w) == wk[w].pc = "sp_yield" \/ wk[w].pc = "body"
ResumeAt(w) ==
    IF wk[w].pc = "sy_yield" THEN Ctx("sy_ret", wk[w].ip)
    ELSE IF wk[w].pc = "sg_yield" THEN Ctx("sg_resume", wk[w].ip)
    ELSE Ctx("body", wk[w].ip + 1)

TaskYield(w) ==
    /\ wk[w].pc \in YieldPcs \/ AtOp(w, "yield")
    /\ LET ytask == wk[w].cur
           tk1 == [task EXCEPT ![ytask].ctx = ResumeAt(w), ![ytask].current_tid = 0 - 1]
       IN IF Requeues(w)
          THEN \E r \in enqueue_task(tk1, heaps, sticky, ytask) :
                 /\ task' = r.task
                 /\ heaps' = r.heaps
                 /\ sticky' = r.sticky
                 /\ wk' = AfterStep(w, r.stop, IdleRec)
                 /\ gh' = [gh EXCEPT !.saved[ytask] = TRUE, !.enq[ytask] = @ \cup {r.where}]
          ELSE /\ task' = tk1
               /\ wk' = [wk EXCEPT ![w] = IdleRec]
               /\ gh' = [gh EXCEPT !.saved[ytask] = TRUE]
               /\ UNCHANGED <<heaps, sticky>>
    /\ UNCHANGED <<loc, bar, scn, cond, arrp, redp>>

(* the end of run_next, lines 626-638: jl_longjmp(task->ctx) *)
ResumedRec(tk, t) == [IdleRec EXCEPT !.pc = tk[t].ctx.pc, !.ip = tk[t].ctx.ip, !.cur = t]
Resumed(w, t) == AfterStep(w, task[t].ctx.pc, ResumedRec(task, t))

(* run_next, lines 628-630: the walk from the task up its parents to a     *)
(* task that has a current_module or is the worker's root task.  The       *)
(* host's root task has a module and jl_task_new gives a task none, so     *)
(* the walk ends when it reaches Main; FALSE when it never ends.           *)
RECURSIVE module_walk_ends(_, _, _)
module_walk_ends(tk, last, fuel) ==
    IF last = Main THEN TRUE
    ELSE IF fuel = 0 THEN FALSE
    ELSE module_walk_ends(tk, tk[last].parent, fuel - 1)
Executing(t) == \E v \in Workers : wk[v].cur = t
ResumedGh(w, t) ==
    [gh EXCEPT !.saved[t] = FALSE,
               !.badresume = @ \/ ~gh.saved[t] \/ Executing(t),
               !.ranon[t] = @ \cup {w}]

(* run_next, lines 624-638, with the task t it found; tk1 is the task      *)
(* table so far                                                            *)
Dispatch(w, t, tk1) ==
    IF module_walk_ends(tk1, t, NTasks)
    THEN /\ task' = [tk1 EXCEPT ![t].current_tid = w]
         /\ wk' = Resumed(w, t)
         /\ gh' = ResumedGh(w, t)
    ELSE /\ task' = tk1
         /\ wk' = [wk EXCEPT ![w].pc = "hang"]
         /\ UNCHANGED gh

(* run_next, lines 595-601 and 624-638: a task of the worker's sticky queue *)
RunNextSticky(w) ==
    /\ wk[w].pc = "run_next"
    /\ sticky[w] # NULL
    /\ LET t == sticky[w] IN
       /\ sticky' = [sticky EXCEPT ![w] = task[t].next]
       /\ Dispatch(w, t, [task EXCEPT ![t].next = NULL])
    /\ UNCHANGED <<loc, bar, scn, heaps, cond, arrp, redp>>

(* run_next, lines 604-638: a task of the multiq.  A round of              *)
(* multiq_deletemin that finds nothing changes nothing.  The assertion of  *)
(* line 610 aborts, or is compiled out.                                    *)
RunNextMultiq(w) ==
    /\ wk[w].pc = "run_next"
    /\ sticky[w] = NULL
    /\ \E rn \in {deletemin_pick(heaps, rn1, rn2) : rn1 \in HeapIdx, rn2 \in HeapIdx} :
         /\ rn # 0 - 1
         /\ LET r == multiq_deletemin(heaps, task, rn)
                t == r.task
                pin == TASK_IS_STICKY \in task[t].settings
            IN /\ t # NULL
               /\ heaps' = r.heaps
               /\ \E assertions \in BOOLEAN :
                    IF pin /\ task[t].sticky_tid # 0 - 1 /\ assertions
                    THEN /\ wk' = CrashAll
                         /\ UNCHANGED <<task, gh>>
                    ELSE Dispatch(w, t, [task EXCEPT ![t].sticky_tid = IF pin THEN w ELSE @])
    /\ UNCHANGED <<loc, bar, scn, sticky, cond, arrp, redp>>

(* task_wrapper, line 521 *)
TaskWrapperStart(w) ==
    /\ wk[w].pc = "tw_start"
    /\ task' = [task EXCEPT ![wk[w].cur].started = TRUE]
    /\ wk' = [wk EXCEPT ![w].pc = "body", ![w].ip = 1]
    /\ UNCHANGED <<loc, bar, scn, heaps, sticky, cond, arrp, redp, gh>>

(* task_wrapper, lines 535-554: the callable returns or throws *)
TaskReturn(w) ==
    /\ wk[w].pc = "body"
    /\ wk[w].cur # NULL /\ wk[w].cur # Main
    /\ wk[w].ip > Len(Body(wk[w].cur))
    /\ LET t == wk[w].cur IN
       /\ task' = IF Throws(t) THEN [task EXCEPT ![t].state = failed_sym]
                  ELSE [task EXCEPT ![t].result = Val(task, t), ![t].state = done_sym]
       /\ wk' = [wk EXCEPT ![w].pc = IF task[t].grain_num >= 0 THEN "sg_start" ELSE "tw_cq"]
    /\ UNCHANGED <<loc, bar, scn, heaps, sticky, cond, arrp, redp, gh>>

(* every grain of the fan-out of parent p has entered its ascent *)
AllArrived(p) ==
    \A g \in Tasks :
        (task[g].exists /\ task[g].grain_num >= 0 /\ task[g].parent = p) => gh.arrived[g]

(* task_wrapper, lines 557-561: detach the completion queue; the parent    *)
(* grain that sync_grains parked at line 508 first runs lines 509-510      *)
CqDetach(w) ==
    /\ wk[w].pc = "tw_cq" \/ wk[w].pc = "sg_resume"
    /\ LET t == wk[w].cur
           tk0 == IF wk[w].pc = "sg_resume"
                  THEN [task EXCEPT ![t].result = task[t].red_result]
                  ELSE task
       IN IF TASK_IS_DETACHED \in task[t].settings
          THEN /\ wk' = [wk EXCEPT ![w] = IdleRec]
               /\ task' = tk0
               /\ UNCHANGED gh
          ELSE /\ task' = [tk0 EXCEPT ![t].cq = NULL]
               /\ wk' = [wk EXCEPT ![w] = IF task[t].cq = NULL THEN IdleRec
                                          ELSE [wk[w] EXCEPT !.pc = "tw_drain", !.qtask = task[t].cq]]
               /\ gh' = [gh EXCEPT !.cqread[t] = TRUE]
    /\ UNCHANGED <<loc, bar, scn, heaps, sticky, cond, arrp, redp>>

(* task_wrapper, lines 564-569: one round of the loop *)
CqDrain(w) ==
    /\ wk[w].pc = "tw_drain"
    /\ LET t == wk[w].cur
           qtask == wk[w].qtask
           qnext == task[qtask].next
           tk1 == [task EXCEPT ![qtask].next = NULL]
       IN \E r \in enqueue_task(tk1, heaps, sticky, qtask) :
            /\ task' = r.task
            /\ heaps' = r.heaps
            /\ sticky' = r.sticky
            /\ wk' = AfterStep(w, r.stop, IF qnext = NULL THEN IdleRec
                                          ELSE [wk[w] EXCEPT !.qtask = qnext])
            /\ gh' = [gh EXCEPT !.drained[t] = Append(@, qtask),
                                !.enq[qtask] = @ \cup {r.where},
                                !.early = @ \/ ~AllArrived(t)]
    /\ UNCHANGED <<loc, bar, scn, cond, arrp, redp>>

(* the value jl_task_sync returns, lines 917-918 *)
SyncValue(tk, t) ==
    IF tk[t].grain_num >= 0 /\ tk[t].red # 0 - 1 THEN tk[t].red_result ELSE tk[t].result

Returned(w, t, v) ==
    [gh EXCEPT !.ret[wk[w].cur] = v, !.retstate[wk[w].cur] = task[t].state,
               !.early = @ \/ (task[t].grain_num >= 0 /\ ~AllArrived(t))]

(* jl_task_sync(t), lines 880-890: the checks made without the lock *)
SyncCheck(w) ==
    /\ AtOp(w, "sync")
    /\ LET t == OpArg(w)
           me == wk[w].cur
       IN IF ~task[t].exists
          THEN /\ wk' = CrashAll      \* task->started of the NULL pointer
               /\ UNCHANGED <<task, gh>>
          ELSE IF ~task[t].started \/ TASK_IS_DETACHED \in task[t].settings
          THEN /\ gh' = Returned(w, t, NullV)
               /\ wk' = [wk EXCEPT ![w].ip = @ + 1]
               /\ UNCHANGED task
          ELSE IF Terminal(task, t)
          THEN /\ gh' = Returned(w, t, SyncValue(task, t))
               /\ wk' = [wk EXCEPT ![w].ip = @ + 1]
               /\ UNCHANGED task
          ELSE /\ task' = [task EXCEPT ![me].next = NULL]
               /\ wk' = [wk EXCEPT ![w].pc = "sy_lock"]
               /\ UNCHANGED gh
    /\ UNCHANGED <<loc, bar, scn, heaps, sticky, cond, arrp, redp>>

(* jl_task_sync(t), lines 891-914: under t's cq.lock *)
SyncLock(w) ==
    /\ wk[w].pc = "sy_lock"
    /\ LET t == OpArg(w)
           me == wk[w].cur
           q == queue_append(task, task[t].cq, me)
       IN IF ~Terminal(task, t)
          THEN /\ task' = [q.task EXCEPT ![t].cq = q.head]
               /\ wk' = AfterStep(w, IF q.hang THEN "hang" ELSE "",
                                  [wk[w] EXCEPT !.pc = "sy_yield"])
               /\ gh' = [gh EXCEPT !.appended[t] = Append(@, me),
                                   !.lateappend = @ \/ gh.cqread[t]]
          ELSE /\ gh' = Returned(w, t, SyncValue(task, t))
               /\ wk' = [wk EXCEPT ![w].pc = "body", ![w].ip = @ + 1]
               /\ UNCHANGED task
    /\ UNCHANGED <<loc, bar, scn, heaps, sticky, cond, arrp, redp>>

(* jl_task_sync(t), lines 917-918, resumed after the yield of line 909 *)
SyncReturn(w) ==
    /\ wk[w].pc = "sy_ret"
    /\ gh' = Returned(w, OpArg(w), SyncValue(task, OpArg(w)))
    /\ wk' = [wk EXCEPT ![w].pc = "body", ![w].ip = @ + 1]
    /\ UNCHANGED <<loc, bar, scn, task, heaps, sticky, cond, arrp, redp>>


(***************************************************************************)
(* conditions                                                              *)
(***************************************************************************)
(* jl_task_wait(c), line 1006 *)
WaitCheck(w) ==
    /\ AtOp(w, "wait")
    /\ wk' = IF cond.notify THEN [wk EXCEPT ![w].ip = @ + 1]
             ELSE [wk EXCEPT ![w].pc = "wt_lock"]
    /\ gh' = [gh EXCEPT !.began[wk[w].cur] = gh.notified]
    /\ UNCHANGED <<loc, bar, scn, task, heaps, sticky, cond, arrp, redp>>

(* jl_task_wait(c), lines 1007-1023: under c's waitq.lock *)
WaitLock(w) ==
    /\ wk[w].pc = "wt_lock"
    /\ LET me == wk[w].cur
           q == queue_append(task, cond.head, me)
       IN IF ~cond.notify
          THEN /\ task' = q.task
               /\ cond' = [cond EXCEPT !.head = q.head]
               /\ wk' = AfterStep(w, IF q.hang THEN "hang" ELSE "",
                                  [wk[w] EXCEPT !.pc = "wt_yield"])
               /\ gh' = [gh EXCEPT !.wappended = Append(@, me),
                                   !.lateblock = @ \/ gh.began[me]]
          ELSE /\ wk' = [wk EXCEPT ![w].pc = "body", ![w].ip = @ + 1]
               /\ UNCHANGED <<task, cond, gh>>
    /\ UNCHANGED <<loc, bar, scn, heaps, sticky, arrp, redp>>

(* a jl_task_notify that detaches the waiters and leaves c->notify alone *)
NotifyDetachKeepsFlag(w) ==
    /\ AtOp(w, "notify")
    /\ cond' = [cond EXCEPT !.head = NULL]
    /\ wk' = IF cond.head = NULL THEN [wk EXCEPT ![w].ip = @ + 1]
             ELSE [wk EXCEPT ![w].pc = "nt_drain", ![w].qtask = cond.head]
    /\ gh' = [gh EXCEPT !.notified = @ \/ cond.head = NULL]
    /\ UNCHANGED <<loc, bar, scn, task, heaps, sticky, arrp, redp>>

(* jl_task_notify(c), lines 1033-1037 *)
NotifyDetach(w) ==
    /\ AtOp(w, "notify")
    /\ cond' = [notify |-> TRUE, head |-> NULL]
    /\ wk' = IF cond.head = NULL THEN [wk EXCEPT ![w].ip = @ + 1]
             ELSE [wk EXCEPT ![w].pc = "nt_drain", ![w].qtask = cond.head]
    /\ gh' = [gh EXCEPT !.notified = @ \/ cond.head = NULL]
    /\ UNCHANGED <<loc, bar, scn, task, heaps, sticky, arrp, redp>>

(* jl_task_notify(c), lines 1040-1045: one round of the loop *)
NotifyDrain(w) ==
    /\ wk[w].pc = "nt_drain"
    /\ LET qtask == wk[w].qtask
           qnext == task[qtask].next
           tk1 == [task EXCEPT ![qtask].next = NULL]
       IN \E r \in enqueue_task(tk1, heaps, sticky, qtask) :
            /\ task' = r.task
            /\ heaps' = r.heaps
            /\ sticky' = r.sticky
            /\ wk' = AfterStep(w, r.stop,
                               IF qnext = NULL
                               THEN [wk[w] EXCEPT !.pc = "body", !.ip = @ + 1, !.qtask = NULL]
                               ELSE [wk[w] EXCEPT !.qtask = qnext])
            /\ gh' = [gh EXCEPT !.wdrained = Append(@, qtask),
                                !.enq[qtask] = @ \cup {r.where},
                                !.notified = @ \/ (qnext = NULL /\ r.stop = "")]
    /\ UNCHANGED <<loc, bar, scn, cond, arrp, redp>>

(***************************************************************************)
(* grain fan-out                                                           *)
(***************************************************************************)
(* the tasks after the loop of jl_task_new_multi, lines 806-835, when the  *)
(* store to prev->next with prev = NULL (i = 1) had no effect: grain i is  *)
(* task p + i, a copy of the parent p                                      *)
new_multi_tasks(tk, p, cur, garbage, arr, red) ==
    LET n == NGrains
        parent == [jl_task_new(cur, garbage) EXCEPT
                      !.start = 0, !.end = grain_end(0, n, Count), !.parent = p,
                      !.grain_num = 0, !.arr = arr, !.red = red]
    IN [t \in Tasks |->
          IF t = p THEN parent
          ELSE IF t > p /\ t < p + n
          THEN [parent EXCEPT !.start = grain_start(t - p, n, Count),
                              !.end = grain_end(t - p, n, Count),
                              !.grain_num = t - p,
                              !.next = IF t + 1 < p + n THEN t + 1 ELSE NULL]
          ELSE tk[t]]

(* the elements of a pool that are on its free list: the walk from the    *)
(* head along next_avail                                                   *)
RECURSIVE FreeFrom(_, _, _)
FreeFrom(p, i, fuel) ==
    IF i = 0 - 1 \/ fuel = 0 THEN {}
    ELSE {i} \cup FreeFrom(p, p.pool[i].next_avail, fuel - 1)
FreeSet(p) == FreeFrom(p, p.next, Cardinality(DOMAIN p.pool))

(* t = jl_task_new_multi(f, Count, rargs), lines 782-839.  The host's      *)
(* callables are inputs: setup_task_fun fails on one that compiles to a    *)
(* constant return (line 669), for rargs at line 798 (runresolved) and for *)
(* f inside the first jl_task_new (unresolved, lines 686-687 and 817).     *)
TaskNewMulti(w) ==
    /\ AtOp(w, "new_multi")
    /\ LET a == tree_alloc(arrp)
           r == tree_alloc(redp)
           none == /\ wk' = [wk EXCEPT ![w].ip = @ + 1]
                   /\ gh' = [gh EXCEPT !.nmfail = TRUE,
                                       !.nmpre = <<FreeSet(arrp), FreeSet(redp)>>]
                   /\ UNCHANGED task
       IN IF a.idx = 0 - 1
          THEN /\ none
               /\ UNCHANGED <<arrp, redp>>
          ELSE IF scn.red /\ r.idx = 0 - 1
          THEN /\ arrp' = tree_free(a.pool, a.idx, 0)
               /\ none
               /\ UNCHANGED redp
          ELSE \E garbage \in SUBSET SettingBits, segv \in BOOLEAN,
                  unresolved \in BOOLEAN, runresolved \in BOOLEAN :
                 IF scn.red /\ runresolved
                 THEN /\ redp' = tree_free(r.pool, r.idx, NullV)
                      /\ arrp' = tree_free(a.pool, a.idx, 0)
                      /\ none
                 ELSE /\ arrp' = a.pool
                      /\ redp' = IF scn.red THEN r.pool ELSE redp
                      /\ IF unresolved
                         THEN none
                         ELSE IF NGrains > 1 /\ segv
                         THEN /\ wk' = CrashAll
                              /\ UNCHANGED <<task, gh>>
                         ELSE /\ task' = new_multi_tasks(task, OpArg(w), wk[w].cur, garbage,
                                                         a.idx,
                                                         IF scn.red THEN r.idx ELSE 0 - 1)
                              /\ wk' = [wk EXCEPT ![w].ip = @ + 1]
                              /\ UNCHANGED gh
    /\ UNCHANGED <<loc, bar, scn, heaps, sticky, cond>>

(* jl_task_spawn_multi(task): the NULL test and one round of the loop of   *)
(* lines 856-862; wk[w].aidx is i and wk[w].qtask is t                     *)
TaskSpawnMulti(w) ==
    /\ AtOp(w, "spawn_multi") \/ wk[w].pc = "sm_loop"
    /\ LET first == wk[w].pc = "body"
           me == wk[w].cur
           i == IF first THEN 0 ELSE wk[w].aidx
           t == IF first THEN (IF task[OpArg(w)].exists THEN OpArg(w) ELSE NULL)
                ELSE wk[w].qtask
           ret(rc) == /\ wk' = [wk EXCEPT ![w] = [IdleRec EXCEPT !.pc = "body", !.cur = me,
                                                                 !.ip = wk[w].ip + 1]]
                      /\ gh' = [gh EXCEPT !.rc[me] = rc]
       IN IF t = NULL
          THEN /\ ret(IF first THEN 0 - 1 ELSE 0 - 3)
               /\ UNCHANGED <<task, heaps>>
          ELSE LET tk1 == [task EXCEPT ![t].prio = w] IN
               \E rn \in HeapIdx :
                 LET r == multiq_insert(heaps, tk1, rn, t) IN
                 /\ task' = tk1
                 /\ heaps' = r.heaps
                 /\ IF r.rc # 0 THEN ret(0 - 2)
                    ELSE IF i + 1 < NGrains
                    THEN /\ wk' = [wk EXCEPT ![w].pc = "sm_loop", ![w].aidx = i + 1,
                                             ![w].qtask = task[t].next]
                         /\ UNCHANGED gh
                    ELSE IF TASK_IS_STICKY \notin task[me].settings
                    THEN /\ wk' = [wk EXCEPT ![w] = [IdleRec EXCEPT !.pc = "sp_yield", !.cur = me,
                                                                    !.ip = wk[w].ip]]
                         /\ gh' = [gh EXCEPT !.rc[me] = 0]
                    ELSE ret(0)
    /\ UNCHANGED <<loc, bar, scn, sticky, cond, arrp, redp>>

(* sync_grains, lines 477-479 and 490: the grain enters reduce or          *)
(* last_arriver                                                            *)
SgStart(w) ==
    /\ wk[w].pc = "sg_start"
    /\ LET t == wk[w].cur
           st == arrive_start(NGrains, task[t].grain_num, task[t].result)
       IN /\ wk' = [wk EXCEPT ![w].pc = "sg_loop", ![w].aidx = st.aidx, ![w].ridx = st.ridx,
                              ![w].val = st.val]
          /\ redp' = IF task[t].red # 0 - 1
                     THEN [redp EXCEPT !.pool[task[t].red].tree[st.ridx] = st.val]
                     ELSE redp
          /\ gh' = [gh EXCEPT !.arrived[t] = TRUE]
    /\ UNCHANGED <<loc, bar, scn, task, heaps, sticky, cond, arrp>>

(* one round of the ascent, and what sync_grains does with its result,     *)
(* lines 479-492 and 507-508                                               *)
SgAscend(w) ==
    /\ wk[w].pc = "sg_loop"
    /\ LET t == wk[w].cur
           red == task[t].red # 0 - 1
           st == [aidx |-> wk[w].aidx, ridx |-> wk[w].ridx, val |-> wk[w].val, verdict |-> ""]
       IN \E g \in Garbage :
            LET r == ascent_step(st, arrp.pool[task[t].arr].tree,
                                 IF red THEN redp.pool[task[t].red].tree ELSE << >>, red, g)
            IN /\ arrp' = [arrp EXCEPT !.pool[task[t].arr].tree = r.cnt]
               /\ redp' = IF red THEN [redp EXCEPT !.pool[task[t].red].tree = r.rt] ELSE redp
               /\ gh' = [gh EXCEPT !.verdict[t] = r.st.verdict]
               /\ task' = IF ~red \/ r.st.verdict = "" THEN task
                          ELSE IF r.st.verdict = "NOT_LAST"
                          THEN [task EXCEPT ![t].result = NullV]
                          ELSE [[task EXCEPT ![t].result = r.st.val]
                                      EXCEPT ![task[t].parent].red_result = r.st.val]
               /\ wk' = [wk EXCEPT ![w].aidx = r.st.aidx, ![w].ridx = r.st.ridx,
                                   ![w].val = r.st.val,
                                   ![w].pc = IF r.st.verdict = "" THEN "sg_loop"
                                             ELSE IF r.st.verdict = "LAST" THEN "sg_last"
                                             ELSE IF task[t].grain_num = 0 THEN "sg_yield"
                                             ELSE "tw_cq"]
    /\ UNCHANGED <<loc, bar, scn, heaps, sticky, cond>>

(* sync_grains, lines 495-503: the last grain wakes the parent and frees   *)
(* the trees                                                               *)
SgLast(w) ==
    /\ wk[w].pc = "sg_last"
    /\ LET t == wk[w].cur
           p == task[t].parent
           tk1 == [task EXCEPT ![p].prio = 0]
       IN /\ IF task[t].grain_num > 0
             THEN \E rn \in HeapIdx :
                    /\ task' = tk1
                    /\ heaps' = multiq_insert(heaps, tk1, rn, p).heaps
             ELSE UNCHANGED <<task, heaps>>
          /\ redp' = IF task[t].red # 0 - 1 THEN tree_free(redp, task[t].red, NullV) ELSE redp
          /\ arrp' = tree_free(arrp, task[t].arr, 0)
          /\ wk' = [wk EXCEPT ![w].pc = "tw_cq"]
    /\ UNCHANGED <<loc, bar, scn, sticky, cond, gh>>

Next ==
    \E w \in Workers :
        \/ TaskNew(w)
        \/ TaskSpawn(w)
        \/ TaskYield(w)
        \/ RunNextSticky(w)
        \/ RunNextMultiq(w)
        \/ TaskWrapperStart(w)
        \/ TaskReturn(w)
        \/ CqDetach(w)
        \/ CqDrain(w)
        \/ SyncCheck(w)
        \/ SyncLock(w)
        \/ SyncReturn(w)
        \/ WaitCheck(w)
        \/ WaitLock(w)
        \/ NotifyDetach(w)
        \/ NotifyDrain(w)
        \/ TaskNewMulti(w)
        \/ TaskSpawnMulti(w)

Spec == Init /\ [][Next]_vars

(***************************************************************************)
(* SpecWait: jl_task_wait and jl_task_notify on waiters whose intrusive    *)
(* next pointer holds any value when they call jl_task_wait.  The host is  *)
(* the "cond" program after its two jl_task_new; tasks 2 and 3 have the    *)
(* next pointers nx2 and nx3 (the grains of a fan-out keep the next        *)
(* pointers jl_task_new_multi gave them while they run).                   *)
(***************************************************************************)
InitWait ==
    /\ scn = [name |-> "cond", sticky |-> FALSE, detach |-> FALSE, throws |-> FALSE,
              red |-> FALSE]
    /\ \E g2 \in SUBSET SettingBits, g3 \in SUBSET SettingBits,
          nx2 \in {NULL, 3}, nx3 \in {NULL, 2} :
         task = [t \in Tasks |->
                   IF t = Main THEN RootTask
                   ELSE IF t = 2 THEN [jl_task_new(Main, g2) EXCEPT !.next = nx2]
                   ELSE IF t = 3 THEN [jl_task_new(Main, g3) EXCEPT !.next = nx3]
                   ELSE NoTaskRec]
    /\ wk = [w \in Workers |->
               IF w = 0 THEN [IdleRec EXCEPT !.pc = "body", !.cur = Main, !.ip = 3]
               ELSE IdleRec]
    /\ heaps = InitHeaps
    /\ sticky = [w \in Workers |-> NULL]
    /\ cond = [notify |-> FALSE, head |-> NULL]
    /\ arrp = InitArrivers
    /\ redp = InitReducers
    /\ gh = InitGh
    /\ bar = NoBarrier
    /\ loc = NoCall

NextWait ==
    \E w \in Workers :
        \/ TaskSpawn(w)
        \/ TaskYield(w)
        \/ RunNextSticky(w)
        \/ RunNextMultiq(w)
        \/ TaskWrapperStart(w)
        \/ TaskReturn(w)
        \/ CqDetach(w)
        \/ WaitCheck(w)
        \/ WaitLock(w)
        \/ NotifyDetach(w)
        \/ NotifyDrain(w)

SpecWait == InitWait /\ [][NextWait]_vars

(***************************************************************************)
(* SpecGrains: sync_grains on its own.  No worker gets a grain past the    *)
(* walk of run_next, so Spec never reaches sync_grains; here the first     *)
(* grains of a fan-out are each on a worker, their callables have          *)
(* returned, and the host's main task waits in the parent's completion     *)
(* queue.                                                                  *)
(***************************************************************************)
InitGrains ==
    /\ \E r \in BOOLEAN :
         scn = [name |-> "multi", sticky |-> FALSE, detach |-> FALSE, throws |-> FALSE,
                red |-> r]
    /\ arrp = tree_alloc(InitArrivers).pool
    /\ redp = IF scn.red THEN tree_alloc(InitReducers).pool ELSE InitReducers
    /\ \E garbage \in SUBSET SettingBits :
         LET tk0 == new_multi_tasks([t \in Tasks |-> NoTaskRec], 2, Main, garbage,
                                    tree_alloc(InitArrivers).idx,
                                    IF scn.red THEN tree_alloc(InitReducers).idx ELSE 0 - 1)
         IN task = [t \in Tasks |->
                      IF t = Main THEN [RootTask EXCEPT !.ctx = Ctx("sy_ret", 3),
                                                        !.current_tid = 0 - 1]
                      ELSE IF t > Main /\ t - 2 < NGrains /\ t - 2 < jl_n_threads
                      THEN [tk0[t] EXCEPT !.started = TRUE, !.state = done_sym,
                                          !.result = Val(tk0, t), !.current_tid = t - 2,
                                          !.cq = IF t = 2 THEN Main ELSE NULL]
                      ELSE tk0[t]]
    /\ wk = [w \in Workers |->
               IF w < NGrains THEN [IdleRec EXCEPT !.pc = "sg_start", !.cur = w + 2]
               ELSE IdleRec]
    /\ heaps = InitHeaps
    /\ sticky = [w \in Workers |-> NULL]
    /\ cond = [notify |-> FALSE, head |-> NULL]
    /\ gh = [InitGh EXCEPT !.saved = [t \in Tasks |-> t = Main],
                           !.appended[2] = <<Main>>]
    /\ bar = NoBarrier
    /\ loc = NoCall

NextGrains ==
    \E w \in Workers :
        \/ SgStart(w)
        \/ SgAscend(w)
        \/ SgLast(w)
        \/ TaskYield(w)
        \/ RunNextMultiq(w)
        \/ CqDetach(w)
        \/ CqDrain(w)
        \/ SyncReturn(w)

SpecGrains == InitGrains /\ [][NextGrains]_vars

(***************************************************************************)
(* SpecSpawn: jl_task_spawn and the enqueue_task of its yield, on heaps    *)
(* that hold the tasks a host spawned before.  The host's main task, on    *)
(* either worker, is at the jl_task_spawn(t, sticky, detach) of the        *)
(* "single" program; t is a task of jl_task_new or NULL; the first k0 of   *)
(* the earlier tasks went to heap 0 and the next k1 to heap 1.  The run    *)
(* ends when the yield of jl_task_spawn has put the main task back; no     *)
(* worker takes a task out meanwhile.                                      *)
(***************************************************************************)
FirstFiller == Main + 3

RECURSIVE fill_from(_, _, _, _, _)
fill_from(hs, tk, t, k0, k1) ==
    IF k0 > 0 THEN fill_from(multiq_insert(hs, tk, 0, t).heaps, tk, t + 1, k0 - 1, k1)
    ELSE IF k1 > 0 THEN fill_from(multiq_insert(hs, tk, 1, t).heaps, tk, t + 1, k0, k1 - 1)
    ELSE hs

Fills ==
    {<<0, 0>>, <<tasks_per_heap - 1, 0>>, <<tasks_per_heap, 0>>, <<0, tasks_per_heap>>,
     <<tasks_per_heap - 1, 1>>}

InitSpawn ==
    /\ scn \in {sc \in Scenarios : sc.name = "single" /\ ~sc.throws}
    /\ \E garbage \in SUBSET SettingBits, null \in BOOLEAN, f \in Fills, w0 \in Workers :
         /\ task = [t \in Tasks |->
                      IF t = Main THEN [RootTask EXCEPT !.current_tid = w0]
                      ELSE IF t = 2 THEN (IF null THEN NoTaskRec ELSE jl_task_new(Main, garbage))
                      ELSE IF t >= FirstFiller /\ t < FirstFiller + f[1] + f[2]
                      THEN jl_task_new(Main, {})
                      ELSE NoTaskRec]
         /\ heaps = fill_from(InitHeaps, task, FirstFiller, f[1], f[2])
         /\ wk = [w \in Workers |->
                    IF w = w0 THEN [IdleRec EXCEPT !.pc = "body", !.cur = Main, !.ip = 2]
                    ELSE IdleRec]
    /\ sticky = [w \in Workers |-> NULL]
    /\ cond = [notify |-> FALSE, head |-> NULL]
    /\ arrp = InitArrivers
    /\ redp = InitReducers
    /\ gh = InitGh
    /\ bar = NoBarrier
    /\ loc = NoCall

NextSpawn ==
    \E w \in Workers :
        \/ TaskSpawn(w)
        \/ TaskYield(w)

SpecSpawn == InitSpawn /\ [][NextSpawn]_vars

(***************************************************************************)
(* SpecBarrier: last_arriver and reduce on their own.  G grains share one  *)
(* arriver that arriver_alloc just handed out, for the first time (fresh:  *)
(* its counters are what jl_malloc_aligned left) or after an arriver_free  *)
(* (its counters are 0), and a reducer when they reduce; each grain makes  *)
(* its one ascent, a round of the loop at a time, in any order.            *)
(***************************************************************************)
MaxG == 4

BarrierGrains == 0 .. (MaxG - 1)

(* the result of grain i: f(start, end) on its range *)
GrainVal(i, n) == IntV(SumRange(grain_start(i, n, Count), grain_end(i, n, Count)))

InitBarrier ==
    /\ scn = [name |-> "cond", sticky |-> FALSE, detach |-> FALSE, throws |-> FALSE,
              red |-> FALSE]
    /\ task = [t \in Tasks |-> IF t = Main THEN RootTask ELSE NoTaskRec]
    /\ wk = [w \in Workers |-> IdleRec]
    /\ heaps = InitHeaps
    /\ sticky = [w \in Workers |-> NULL]
    /\ cond = [notify |-> FALSE, head |-> NULL]
    /\ arrp = InitArrivers
    /\ redp = InitReducers
    /\ gh = InitGh
    /\ loc = NoCall
    /\ \E n \in 1 .. MaxG, red \in BOOLEAN, fresh \in BOOLEAN :
         bar = [G |-> n, red |-> red, fresh |-> fresh,
                cnt |-> [j \in 0 .. (n - 2) |-> IF fresh THEN UNINIT ELSE 0],
                rt |-> [j \in 0 .. (2 * n - 2) |-> NullV],
                g |-> [i \in 0 .. (n - 1) |->
                         [pc |-> "call", aidx |-> 0, ridx |-> 0, val |-> GrainVal(i, n),
                          verdict |-> ""]]]

(* grain i enters last_arriver or reduce: lines 310, 329 and 341 *)
GrainArrive(i) ==
    /\ i < bar.G
    /\ bar.g[i].pc = "call"
    /\ LET st == arrive_start(bar.G, i, bar.g[i].val) IN
       bar' = [bar EXCEPT !.g[i] = [pc |-> "loop", aidx |-> st.aidx, ridx |-> st.ridx,
                                    val |-> st.val, verdict |-> ""],
                          !.rt = IF bar.red THEN [@ EXCEPT ![st.ridx] = st.val] ELSE @]
    /\ UNCHANGED <<loc, scn, task, wk, heaps, sticky, cond, arrp, redp, gh>>

(* one round of its loop, lines 312-317 and 342-362, or its return *)
GrainAscend(i) ==
    /\ i < bar.G
    /\ bar.g[i].pc = "loop"
    /\ \E g \in Garbage :
         LET st == [aidx |-> bar.g[i].aidx, ridx |-> bar.g[i].ridx, val |-> bar.g[i].val,
                    verdict |-> ""]
             r == ascent_step(st, bar.cnt, bar.rt, bar.red, g)
         IN bar' = [bar EXCEPT !.cnt = r.cnt, !.rt = r.rt,
                               !.g[i] = [pc |-> IF r.st.verdict = "" THEN "loop" ELSE "ret",
                                         aidx |-> r.st.aidx, ridx |-> r.st.ridx,
                                         val |-> r.st.val, verdict |-> r.st.verdict]]
    /\ UNCHANGED <<loc, scn, task, wk, heaps, sticky, cond, arrp, redp, gh>>

NextBarrier ==
    \E i \in BarrierGrains :
        \/ GrainArrive(i)
        \/ GrainAscend(i)

SpecBarrier == InitBarrier /\ [][NextBarrier]_vars

(***************************************************************************)
(* SpecSplit: the loop of jl_task_new_multi, lines 806-839, a round at a   *)
(* time, for a host with n = GRAIN_K * jl_n_threads in 1 .. MaxG and a     *)
(* count in 0 .. MaxCount.  loc[0] holds the locals of the call; grain i   *)
(* is the task i + 1 of `grains`.                                          *)
(***************************************************************************)
MaxCount == 6

InitSplit ==
    /\ scn = [name |-> "multi", sticky |-> FALSE, detach |-> FALSE, throws |-> FALSE,
              red |-> FALSE]
    /\ task = [t \in Tasks |-> IF t = Main THEN RootTask ELSE NoTaskRec]
    /\ wk = [w \in Workers |-> IdleRec]
    /\ heaps = InitHeaps
    /\ sticky = [w \in Workers |-> NULL]
    /\ cond = [notify |-> FALSE, head |-> NULL]
    /\ arrp = InitArrivers
    /\ redp = InitReducers
    /\ gh = InitGh
    /\ bar = NoBarrier
    /\ \E n \in 1 .. MaxG, count \in 0 .. MaxCount :
         loc = [w \in Workers |->
                  IF w = 0
                  THEN [pc |-> "nm_loop", n |-> n, count |-> count, i |-> 0, start |-> 0,
                        task |-> NULL, prev |-> NULL, grains |-> << >>]
                  ELSE NoCall[w]]

(* one round of the loop, lines 809-836.  In the round i = 1 prev is still *)
(* NULL (line 806) and `prev->next = t` stores through the NULL pointer:   *)
(* the process dies, or the store is lost                                  *)
NmRound(w) ==
    /\ loc[w].pc = "nm_loop"
    /\ loc[w].i < loc[w].n
    /\ LET f == loc[w]
           end == f.start + (f.count \div f.n) + (IF f.i < f.count % f.n THEN 1 ELSE 0)
           t == f.i + 1
           made == Append(f.grains, [start |-> f.start, end |-> end, grain_num |-> f.i,
                                     next |-> NULL])
           after == [f EXCEPT !.i = @ + 1, !.start = end]
       IN IF f.task = NULL
          THEN loc' = [loc EXCEPT ![w] = [after EXCEPT !.task = t, !.grains = made]]
          ELSE IF f.prev = NULL
          THEN \E segv \in BOOLEAN :
                 loc' = [loc EXCEPT ![w] =
                           IF segv THEN [f EXCEPT !.pc = "crash", !.grains = made]
                           ELSE [after EXCEPT !.prev = t, !.grains = made]]
          ELSE loc' = [loc EXCEPT ![w] =
                         [after EXCEPT !.prev = t,
                                       !.grains = [made EXCEPT ![f.prev].next = t]]]
    /\ UNCHANGED <<scn, task, wk, heaps, sticky, cond, arrp, redp, gh, bar>>

(* the end of the loop and line 839: return task *)
NmReturn(w) ==
    /\ loc[w].pc = "nm_loop"
    /\ loc[w].i = loc[w].n
    /\ loc' = [loc EXCEPT ![w].pc = "nm_ret"]
    /\ UNCHANGED <<scn, task, wk, heaps, sticky, cond, arrp, redp, gh, bar>>

NextSplit ==
    \E w \in Workers :
        \/ NmRound(w)
        \/ NmReturn(w)

SpecSplit == InitSplit /\ [][NextSplit]_vars

(***************************************************************************)
(* SpecHeap: multiq_insert and multiq_deletemin one call after the other   *)
(* (no call overlaps another).  Heap 0 holds k tasks that were spawned     *)
(* before, in the order of their ids and with any priorities (the ids of   *)
(* the workers that spawned them); then come MaxOps calls.  An insert is   *)
(* for the first task that is in no heap; loc[0] keeps what the last call  *)
(* returned.                                                               *)
(***************************************************************************)
MaxOps == 3

InHeap(hs, t) == \E h \in HeapIdx : \E i \in Slots : hs[h].tasks[i] = t

FirstFree(hs, tk) ==
    LET free == {t \in Tasks \ {Main} : tk[t].exists /\ ~InHeap(hs, t)}
    IN IF free = {} THEN NULL ELSE CHOOSE t \in free : \A u \in free : t <= u

InitHeap ==
    /\ scn = [name |-> "cond", sticky |-> FALSE, detach |-> FALSE, throws |-> FALSE,
              red |-> FALSE]
    /\ \E k \in 0 .. tasks_per_heap :
         \E pv \in [FirstFiller .. (FirstFiller + k - 1) -> Workers] :
           /\ task = [t \in Tasks |->
                        IF t = Main THEN RootTask
                        ELSE IF t \in DOMAIN pv THEN [jl_task_new(Main, {}) EXCEPT !.prio = pv[t]]
                        ELSE IF t < FirstFiller THEN jl_task_new(Main, {})
                        ELSE NoTaskRec]
           /\ heaps = fill_from(InitHeaps, task, FirstFiller, k, 0)
    /\ wk = [w \in Workers |-> IdleRec]
    /\ sticky = [w \in Workers |-> NULL]
    /\ cond = [notify |-> FALSE, head |-> NULL]
    /\ arrp = InitArrivers
    /\ redp = InitReducers
    /\ gh = InitGh
    /\ bar = NoBarrier
    /\ loc = [w \in Workers |->
                IF w = 0 THEN [pc |-> "heap", ops |-> 0, op |-> "", rc |-> 0, t |-> NULL,
                               rn |-> 0]
                ELSE NoCall[w]]

(* multiq_insert(t, priority), lines 113-130 *)
HeapInsert(w) ==
    /\ loc[w].pc = "heap"
    /\ loc[w].ops < MaxOps
    /\ FirstFree(heaps, task) # NULL
    /\ \E priority \in Workers, rn \in HeapIdx :
         LET t == FirstFree(heaps, task)
             tk1 == [task EXCEPT ![t].prio = priority]
             r == multiq_insert(heaps, tk1, rn, t)
         IN /\ task' = tk1
            /\ heaps' = r.heaps
            /\ loc' = [loc EXCEPT ![w].ops = @ + 1, ![w].op = "insert", ![w].rc = r.rc,
                                  ![w].t = t, ![w].rn = rn]
    /\ UNCHANGED <<scn, wk, sticky, cond, arrp, redp, gh, bar>>

(* multiq_deletemin(), lines 143-174, when a round of its loop commits *)
HeapDeleteMin(w) ==
    /\ loc[w].pc = "heap"
    /\ loc[w].ops < MaxOps
    /\ \E rn1 \in HeapIdx, rn2 \in HeapIdx :
         LET rn == deletemin_pick(heaps, rn1, rn2) IN
         /\ rn # 0 - 1
         /\ LET r == multiq_deletemin(heaps, task, rn) IN
            /\ heaps' = r.heaps
            /\ loc' = [loc EXCEPT ![w].ops = @ + 1, ![w].op = "deletemin", ![w].rc = 0,
                                  ![w].t = r.task, ![w].rn = rn]
    /\ UNCHANGED <<scn, task, wk, sticky, cond, arrp, redp, gh, bar>>

NextHeap ==
    \E w \in Workers :
        \/ HeapInsert(w)
        \/ HeapDeleteMin(w)

SpecHeap == InitHeap /\ [][NextHeap]_vars

(***************************************************************************)
(* SpecMultiq: multiq_insert and multiq_deletemin statement by statement,  *)
(* by all the workers at once.  The workers make MaxCalls calls in all;    *)
(* an insert is for the first task that is in no heap and that no other    *)
(* call holds, at the worker's id (jl_task_spawn) or at the task's         *)
(* priority (enqueue_task).  Heap 0 is empty, or full of tasks spawned     *)
(* before by worker 0.  loc[w] holds the locals of worker w's call: rn and *)
(* prio are rn and prio of multiq_insert, rn1 and prio1 of                 *)
(* multiq_deletemin.                                                       *)
(***************************************************************************)
MaxCalls == 5

(* what a read of tasks[-1] yields: the NULL pointer or another word *)
WILD == NTasks + 1

MqIdle == [pc |-> "mq_idle", calls |-> 0, op |-> "", t |-> NULL, rn |-> 0, prio |-> 0,
           i |-> 0, rn2 |-> 0, prio2 |-> 0, rc |-> 0]

(* the worker's locals when its call has returned rc (multiq_insert) or t  *)
(* (multiq_deletemin)                                                      *)
MqReturned(f, rc, t) == [MqIdle EXCEPT !.calls = f.calls, !.op = f.op, !.rc = rc, !.t = t]

(* the calls the workers 0 .. w have begun *)
RECURSIVE CallsBegun(_)
CallsBegun(w) == IF w < 0 THEN 0 ELSE loc[w].calls + CallsBegun(w - 1)

(* no call has written outside a task array *)
MqSane == \A h \in HeapIdx : heaps[h].ntasks >= 0

MqHeld(t) == \E w \in Workers : loc[w].pc \in {"ins_lock", "ins_store"} /\ loc[w].t = t

MqFirstFree ==
    LET free == {t \in Tasks \ {Main} : task[t].exists /\ ~InHeap(heaps, t) /\ ~MqHeld(t)}
    IN IF free = {} THEN NULL ELSE CHOOSE t \in free : \A u \in free : t <= u

InitMultiq ==
    /\ scn = [name |-> "cond", sticky |-> FALSE, detach |-> FALSE, throws |-> FALSE,
              red |-> FALSE]
    /\ \E k \in {0, tasks_per_heap} :
         /\ task = [t \in Tasks |->
                      IF t = Main THEN RootTask
                      ELSE IF t < FirstFiller \/ t < FirstFiller + k THEN jl_task_new(Main, {})
                      ELSE NoTaskRec]
         /\ heaps = fill_from(InitHeaps, task, FirstFiller, k, 0)
    /\ wk = [w \in Workers |-> IdleRec]
    /\ sticky = [w \in Workers |-> NULL]
    /\ cond = [notify |-> FALSE, head |-> NULL]
    /\ arrp = InitArrivers
    /\ redp = InitReducers
    /\ gh = InitGh
    /\ bar = NoBarrier
    /\ loc = [w \in Workers |-> MqIdle]

(* multiq_insert(task, priority), line 113 *)
InsBegin(w) ==
    /\ MqSane
    /\ loc[w].pc = "mq_idle"
    /\ CallsBegun(jl_n_threads - 1) < MaxCalls
    /\ MqFirstFree # NULL
    /\ LET t == MqFirstFree IN
       \E priority \in {w, task[t].prio} :
         /\ task' = [task EXCEPT ![t].prio = priority]
         /\ loc' = [loc EXCEPT ![w] = [MqIdle EXCEPT !.pc = "ins_lock", !.op = "insert",
                                                     !.calls = loc[w].calls + 1, !.t = t]]
    /\ UNCHANGED <<scn, wk, heaps, sticky, cond, arrp, redp, gh, bar>>

(* lines 114-116: the draw whose trylock succeeds *)
InsLock(w) ==
    /\ MqSane
    /\ loc[w].pc = "ins_lock"
    /\ \E rn \in HeapIdx :
         /\ heaps[rn].lock = 0 - 1
         /\ heaps' = [heaps EXCEPT ![rn].lock = w]
         /\ loc' = [loc EXCEPT ![w].pc = "ins_store", ![w].rn = rn]
    /\ UNCHANGED <<scn, task, wk, sticky, cond, arrp, redp, gh, bar>>

(* an insert that returns -1 from a full heap without unlocking it *)
InsStoreKeepsLock(w) ==
    /\ MqSane
    /\ loc[w].pc = "ins_store"
    /\ LET rn == loc[w].rn
           n == heaps[rn].ntasks
       IN IF n >= tasks_per_heap
          THEN /\ UNCHANGED heaps
               /\ loc' = [loc EXCEPT ![w] = MqReturned(loc[w], 0 - 1, loc[w].t)]
          ELSE /\ heaps' = [heaps EXCEPT
                              ![rn].tasks = sift_up([@ EXCEPT ![n] = loc[w].t], n, task),
                              ![rn].ntasks = n + 1,
                              ![rn].lock = 0 - 1]
               /\ loc' = [loc EXCEPT ![w].pc = "ins_load"]
    /\ UNCHANGED <<scn, task, wk, sticky, cond, arrp, redp, gh, bar>>

(* lines 118-125: under the lock *)
InsStore(w) ==
    /\ MqSane
    /\ loc[w].pc = "ins_store"
    /\ LET rn == loc[w].rn
           n == heaps[rn].ntasks
       IN IF n >= tasks_per_heap
          THEN /\ heaps' = [heaps EXCEPT ![rn].lock = 0 - 1]
               /\ loc' = [loc EXCEPT ![w] = MqReturned(loc[w], 0 - 1, loc[w].t)]
          ELSE /\ heaps' = [heaps EXCEPT
                              ![rn].tasks = sift_up([@ EXCEPT ![n] = loc[w].t], n, task),
                              ![rn].ntasks = n + 1,
                              ![rn].lock = 0 - 1]
               /\ loc' = [loc EXCEPT ![w].pc = "ins_load"]
    /\ UNCHANGED <<scn, task, wk, sticky, cond, arrp, redp, gh, bar>>

(* line 126, after the unlock *)
InsLoad(w) ==
    /\ MqSane
    /\ loc[w].pc = "ins_load"
    /\ loc' = [loc EXCEPT ![w].pc = "ins_publish", ![w].prio = heaps[loc[w].rn].prio]
    /\ UNCHANGED <<scn, task, wk, heaps, sticky, cond, arrp, redp, gh, bar>>

(* lines 127-130: the one compare-and-swap, and the return *)
InsPublish(w) ==
    /\ MqSane
    /\ loc[w].pc = "ins_publish"
    /\ LET rn == loc[w].rn
           mine == task[loc[w].t].prio
       IN heaps' = IF mine < loc[w].prio /\ heaps[rn].prio = loc[w].prio
                   THEN [heaps EXCEPT ![rn].prio = mine]
                   ELSE heaps
    /\ loc' = [loc EXCEPT ![w] = MqReturned(loc[w], 0, loc[w].t)]
    /\ UNCHANGED <<scn, task, wk, sticky, cond, arrp, redp, gh, bar>>

(* multiq_deletemin(): the test of the for loop, lines 143-146 of a round, *)
(* and lines 160-161                                                       *)
DelRound(w) ==
    /\ MqSane
    /\ \/ /\ loc[w].pc = "mq_idle"
          /\ CallsBegun(jl_n_threads - 1) < MaxCalls
       \/ loc[w].pc = "del_round"
    /\ LET f == IF loc[w].pc = "mq_idle"
                THEN [MqIdle EXCEPT !.op = "deletemin", !.calls = loc[w].calls + 1]
                ELSE loc[w]
       IN IF f.i = jl_n_threads
          THEN loc' = [loc EXCEPT ![w] = MqReturned(f, 0, NULL)]
          ELSE \E rn1 \in HeapIdx, rn2 \in HeapIdx :
                 loc' = [loc EXCEPT ![w] = [f EXCEPT !.pc = "del_load2", !.rn = rn1, !.rn2 = rn2,
                                                      !.prio = heaps[rn1].prio]]
    /\ UNCHANGED <<scn, task, wk, heaps, sticky, cond, arrp, redp, gh, bar>>

(* lines 147-153 *)
DelLoad2(w) ==
    /\ MqSane
    /\ loc[w].pc = "del_load2"
    /\ LET prio2 == heaps[loc[w].rn2].prio IN
       loc' = [loc EXCEPT ![w] =
                 IF loc[w].prio > prio2
                 THEN [loc[w] EXCEPT !.pc = "del_lock", !.prio = prio2, !.rn = loc[w].rn2]
                 ELSE IF loc[w].prio = prio2 /\ loc[w].prio = INT16_MAX
                 THEN [loc[w] EXCEPT !.pc = "del_round", !.i = @ + 1]
                 ELSE [loc[w] EXCEPT !.pc = "del_lock"]]
    /\ UNCHANGED <<scn, task, wk, heaps, sticky, cond, arrp, redp, gh, bar>>

(* line 154: the trylock *)
DelLock(w) ==
    /\ MqSane
    /\ loc[w].pc = "del_lock"
    /\ IF heaps[loc[w].rn].lock = 0 - 1
       THEN /\ heaps' = [heaps EXCEPT ![loc[w].rn].lock = w]
            /\ loc' = [loc EXCEPT ![w].pc = "del_check"]
       ELSE /\ loc' = [loc EXCEPT ![w].pc = "del_round", ![w].i = @ + 1]
            /\ UNCHANGED heaps
    /\ UNCHANGED <<scn, task, wk, sticky, cond, arrp, redp, gh, bar>>

(* a re-validation that keeps the lock when the summary has changed *)
DelCheckKeepsLock(w) ==
    /\ MqSane
    /\ loc[w].pc = "del_check"
    /\ loc' = [loc EXCEPT ![w] = IF loc[w].prio = heaps[loc[w].rn].prio
                                  THEN [@ EXCEPT !.pc = "del_commit"]
                                  ELSE [@ EXCEPT !.pc = "del_round", !.i = @ + 1]]
    /\ UNCHANGED <<scn, task, wk, heaps, sticky, cond, arrp, redp, gh, bar>>

(* lines 155-157: the summary is read again under the lock *)
DelCheck(w) ==
    /\ MqSane
    /\ loc[w].pc = "del_check"
    /\ IF loc[w].prio = heaps[loc[w].rn].prio
       THEN /\ loc' = [loc EXCEPT ![w].pc = "del_commit"]
            /\ UNCHANGED heaps
       ELSE /\ heaps' = [heaps EXCEPT ![loc[w].rn].lock = 0 - 1]
            /\ loc' = [loc EXCEPT ![w].pc = "del_round", ![w].i = @ + 1]
    /\ UNCHANGED <<scn, task, wk, sticky, cond, arrp, redp, gh, bar>>

(* lines 163-174.  With ntasks = 0 line 164 reads tasks[-1] and line 165   *)
(* writes it: the count is -1 and slot 0 holds the word that was read      *)
DelCommit(w) ==
    /\ MqSane
    /\ loc[w].pc = "del_commit"
    /\ LET rn == loc[w].rn IN
       IF heaps[rn].ntasks > 0
       THEN LET r == multiq_deletemin(heaps, task, rn) IN
            /\ heaps' = [r.heaps EXCEPT ![rn].lock = 0 - 1]
            /\ loc' = [loc EXCEPT ![w] = MqReturned(loc[w], 0, r.task)]
       ELSE \E word \in {NULL, WILD} :
            /\ heaps' = [heaps EXCEPT ![rn].tasks[0] = word, ![rn].ntasks = 0 - 1,
                                      ![rn].prio = INT16_MAX, ![rn].lock = 0 - 1]
            /\ loc' = [loc EXCEPT ![w] = MqReturned(loc[w], 0, heaps[rn].tasks[0])]
    /\ UNCHANGED <<scn, task, wk, sticky, cond, arrp, redp, gh, bar>>

NextMultiq ==
    \E w \in Workers :
        \/ InsBegin(w)
        \/ InsLock(w)
        \/ InsStore(w)
        \/ InsLoad(w)
        \/ InsPublish(w)
        \/ DelRound(w)
        \/ DelLoad2(w)
        \/ DelLock(w)
        \/ DelCheck(w)
        \/ DelCommit(w)

SpecMultiq == InitMultiq /\ [][NextMultiq]_vars

(***************************************************************************)
(* The arriver pool, statement by statement: the workers call              *)
(* arriver_alloc and arriver_free on the pool arrp, each on the elements  *)
(* it was handed.  loc[w].held is the set of elements arriver_alloc has   *)
(* returned to worker w and w has not yet passed to arriver_free.         *)
(***************************************************************************)
PoolIdle == [pc |-> "pool_idle", calls |-> 0, held |-> {}, candidate |-> 0 - 1,
             next_avail |-> 0 - 1, arr |-> 0 - 1, old |-> 0 - 1]

(* the worker's locals when its call has returned, holding the elements h *)
PoolReturned(f, h) == [PoolIdle EXCEPT !.calls = f.calls, !.held = h]

InitPool ==
    /\ scn = [name |-> "cond", sticky |-> FALSE, detach |-> FALSE, throws |-> FALSE,
              red |-> FALSE]
    /\ task = [t \in Tasks |-> IF t = Main THEN RootTask ELSE NoTaskRec]
    /\ heaps = InitHeaps
    /\ wk = [w \in Workers |-> IdleRec]
    /\ sticky = [w \in Workers |-> NULL]
    /\ cond = [notify |-> FALSE, head |-> NULL]
    /\ arrp = InitArrivers
    /\ redp = InitReducers
    /\ gh = InitGh
    /\ bar = NoBarrier
    /\ loc = [w \in Workers |-> PoolIdle]

(* arriver_alloc, lines 256-259: the load of the head, at the call and     *)
(* after a failed compare-and-swap                                         *)
AllocLoad(w) ==
    /\ \/ loc[w].pc = "pool_idle" /\ CallsBegun(jl_n_threads - 1) < MaxCalls
       \/ loc[w].pc = "alloc_load"
    /\ LET f == IF loc[w].pc = "pool_idle" THEN [loc[w] EXCEPT !.calls = @ + 1] ELSE loc[w]
       IN loc' = [loc EXCEPT ![w] =
                    IF arrp.next = 0 - 1 THEN PoolReturned(f, f.held)
                    ELSE [f EXCEPT !.pc = "alloc_read", !.candidate = arrp.next]]
    /\ UNCHANGED <<scn, task, wk, heaps, sticky, cond, arrp, redp, gh, bar>>

(* line 261: the read of arr->next_avail, the third argument of the        *)
(* compare-and-swap                                                        *)
AllocRead(w) ==
    /\ loc[w].pc = "alloc_read"
    /\ loc' = [loc EXCEPT ![w] = [@ EXCEPT !.pc = "alloc_cas",
                                           !.next_avail = arrp.pool[loc[w].candidate].next_avail]]
    /\ UNCHANGED <<scn, task, wk, heaps, sticky, cond, arrp, redp, gh, bar>>

(* lines 260-262: the compare-and-swap of the head and the return *)
AllocCas(w) ==
    /\ loc[w].pc = "alloc_cas"
    /\ IF arrp.next = loc[w].candidate
       THEN /\ arrp' = [arrp EXCEPT !.next = loc[w].next_avail]
            /\ loc' = [loc EXCEPT ![w] = PoolReturned(@, @.held \cup {@.candidate})]
       ELSE /\ loc' = [loc EXCEPT ![w] = [@ EXCEPT !.pc = "alloc_load"]]
            /\ UNCHANGED arrp
    /\ UNCHANGED <<scn, task, wk, heaps, sticky, cond, redp, gh, bar>>

(* arriver_free(arr) on an element the worker holds, lines 270-273: the    *)
(* counters are zeroed and the head is exchanged for arr->index            *)
FreeExchange(w) ==
    /\ loc[w].pc = "pool_idle"
    /\ CallsBegun(jl_n_threads - 1) < MaxCalls
    /\ \E e \in loc[w].held :
         /\ arrp' = [next |-> e,
                     pool |-> [arrp.pool EXCEPT ![e].tree =
                                 [j \in DOMAIN arrp.pool[e].tree |-> 0]]]
         /\ loc' = [loc EXCEPT ![w] = [@ EXCEPT !.pc = "free_store", !.calls = @ + 1,
                                                !.held = @ \ {e}, !.arr = e,
                                                !.old = arrp.next]]
    /\ UNCHANGED <<scn, task, wk, heaps, sticky, cond, redp, gh, bar>>

(* line 273, the last argument of jl_atomic_exchange_generic: the head the *)
(* exchange replaced is stored into arr->next_avail                        *)
FreeStore(w) ==
    /\ loc[w].pc = "free_store"
    /\ arrp' = [arrp EXCEPT !.pool[loc[w].arr].next_avail = loc[w].old]
    /\ loc' = [loc EXCEPT ![w] = PoolReturned(@, @.held)]
    /\ UNCHANGED <<scn, task, wk, heaps, sticky, cond, redp, gh, bar>>

NextPool ==
    \E w \in Workers :
        \/ AllocLoad(w)
        \/ AllocRead(w)
        \/ AllocCas(w)
        \/ FreeExchange(w)
        \/ FreeStore(w)

SpecPool == InitPool /\ [][NextPool]_vars

(***************************************************************************)
(* Properties                                                              *)
(***************************************************************************)
IsPrefix(a, b) == Len(a) <= Len(b) /\ \A i \in 1 .. Len(a) : a[i] = b[i]

(* the workers have nothing to run and the host's main task is at its end *)
Quiescent ==
    /\ \A w \in Workers :
         \/ wk[w].pc = "run_next"
         \/ wk[w].cur = Main /\ wk[w].pc = "body" /\ wk[w].ip > Len(Body(Main))
    /\ \A h \in HeapIdx : heaps[h].ntasks = 0
    /\ \A w \in Workers : sticky[w] = NULL

(* t's task_wrapper has come to its end *)
WrapperDone(t) == gh.cqread[t] /\ ~Executing(t)

(* C1: the host's main task creates t (callable returning v = 43), spawns  *)
(* it non-sticky and non-detached and gets 0; its jl_task_sync(t) then     *)
(* returns v, with t done, and never NULL.  (Under Spec.)                  *)
C1_SpawnSyncReturnsResult ==
    (/\ scn.name = "single" /\ ~scn.sticky /\ ~scn.detach /\ ~scn.throws
     /\ task[2].settings = {}
     /\ gh.rc[Main] = 0
     /\ gh.ret[Main] # NoRet)
    => (gh.ret[Main] = Val(task, 2) /\ gh.retstate[Main] = done_sym)

(* C2: when the G grains of a reducing fan-out have all finished their     *)
(* ascent of reduce, on an arriver whose counters were 0, the value the    *)
(* LAST grain returns (which sync_grains stores in parent.red_result) is   *)
(* v_0 + ... + v_{G-1}, the sum over [0, Count).  (Under SpecBarrier.)     *)
C2_ReductionIsSumOfGrains ==
    (/\ bar.red /\ ~bar.fresh
     /\ \A i \in 0 .. (bar.G - 1) : bar.g[i].pc = "ret")
    => \A i \in 0 .. (bar.G - 1) :
          bar.g[i].verdict = "LAST" => bar.g[i].val = IntV(SumRange(0, Count))

(* C3: no jl_task_sync(parent) returns a value, and no waiter of the       *)
(* parent's completion queue is enqueued again, while a grain of the       *)
(* fan-out has not yet arrived at the arriver.  (Under Spec.)              *)
C3_NothingPassesParentBeforeBarrier == ~gh.early

(* C4: when the G grains that share a just allocated arriver have all made *)
(* their ascent, exactly one of them got LAST and the other G - 1 got      *)
(* NOT_LAST.  (Under SpecBarrier.)                                         *)
C4_ExactlyOneLast ==
    (\A i \in 0 .. (bar.G - 1) : bar.g[i].pc = "ret")
    => /\ Cardinality({i \in 0 .. (bar.G - 1) : bar.g[i].verdict = "LAST"}) = 1
       /\ Cardinality({i \in 0 .. (bar.G - 1) : bar.g[i].verdict = "NOT_LAST"}) = bar.G - 1

(* C5: for every non-detached task t, the waiters t's task_wrapper passes  *)
(* to enqueue_task are the tasks that appended themselves to t's           *)
(* completion queue, in that order and each once; it passes them only when *)
(* t is done or failed, all of them by the time it ends, and nobody is     *)
(* appended after the queue was detached.  (Under Spec.)                   *)
C5_CompletionQueueDrain ==
    /\ ~gh.lateappend
    /\ \A t \in Tasks :
         TASK_IS_DETACHED \notin task[t].settings =>
            /\ IsPrefix(gh.drained[t], gh.appended[t])
            /\ gh.drained[t] # << >> => Terminal(task, t)
            /\ WrapperDone(t) => gh.drained[t] = gh.appended[t]

C5_TwoWaitersDrained ==
    /\ scn.name = "join"
    /\ gh.appended[2] = <<3, Main>>
    /\ gh.drained[2] = <<3, Main>>
    /\ WrapperDone(2)

(* C6: c.notify is 0 until a jl_task_notify(c) runs, stays set once one    *)
(* has returned, and a jl_task_wait(c) that begins after one has returned  *)
(* never appends its caller to the wait queue.  (Under Spec.)              *)
C6_ConditionIsLatch ==
    /\ gh.notified => cond.notify
    /\ cond.notify => \A w \in Workers : wk[w].cur = Main => ~AtOp(w, "notify")
    /\ ~gh.lateblock

C6_LateWaitReturned ==
    /\ scn.name = "cond"
    /\ gh.began[2]
    /\ Terminal(task, 2)
    /\ gh.wappended = <<3>>

(* C7: the tasks jl_task_notify(c) passes to enqueue_task are the tasks    *)
(* that appended themselves to c's wait queue, in that order and each      *)
(* once, and no other task, whatever next pointer a waiter had when it     *)
(* called jl_task_wait.  (Under SpecWait.)                                 *)
C7_NotifyEnqueuesWaitersOnly == IsPrefix(gh.wdrained, gh.wappended)

(* C8: when t is spawned detached, jl_task_sync(t) returns NULL at once:   *)
(* its caller is never appended to t's completion queue and never waits    *)
(* in it; t's task_wrapper never reads or drains that queue; and t has run *)
(* to done or failed when nothing is left to run.  (Under Spec.)           *)
C8_DetachedTask ==
    (scn.name = "single" /\ scn.detach) =>
        /\ gh.ret[Main] \in {NoRet, NullV}
        /\ gh.appended[2] = << >> /\ gh.drained[2] = << >> /\ ~gh.cqread[2]
        /\ task[2].cq = NULL
        /\ \A w \in Workers : wk[w].pc \notin {"sy_lock", "sy_yield", "sy_ret"}
        /\ Quiescent => Terminal(task, 2)

C8_DetachedRanToEnd ==
    /\ scn.name = "single" /\ scn.detach
    /\ gh.ret[Main] = NullV
    /\ Terminal(task, 2)
    /\ Quiescent

(* C9: for a task t that is sticky when a worker first takes it from the   *)
(* multiq (spawned sticky by jl_task_spawn): sticky_tid is -1 until a      *)
(* worker k takes t and is k from then on, so the assertion of run_next    *)
(* never fails; enqueue_task(t) only ever puts t on k's sticky queue,      *)
(* never in a heap; and only k resumes t.  (Under Spec.)                   *)
C9_StickyTask ==
    /\ (scn.name = "single" /\ scn.sticky) =>
          /\ TASK_IS_STICKY \in task[2].settings \/ ~task[2].exists \/ gh.rc[Main] = 1
          /\ \A w \in Workers : wk[w].pc # "crash"
    /\ \A t \in Tasks :
         (TASK_IS_STICKY \in task[t].settings /\ task[t].grain_num < 0) =>
            /\ gh.ranon[t] = {} => task[t].sticky_tid = 0 - 1
            /\ gh.ranon[t] # {} => gh.ranon[t] = {task[t].sticky_tid}
            /\ gh.enq[t] \subseteq {"sticky"}
            /\ \A w \in Workers : sticky[w] = t => task[t].sticky_tid = w
            /\ \A h \in HeapIdx : task[t].sticky_tid # 0 - 1 =>
                  \A i \in Slots : heaps[h].tasks[i] # t

C9_StickyResumedByItsWorker ==
    /\ scn.name = "single" /\ scn.sticky
    /\ gh.enq[2] = {"sticky"}
    /\ Terminal(task, 2)
    /\ task[2].sticky_tid = 1

(* C10: whenever run_next resumes a task, no worker is executing that task *)
(* and the context it jumps into was saved by the task's latest yield.     *)
(* (Under Spec.)                                                           *)
C10_ResumeOnlySavedIdleTask == ~gh.badresume

(* t is in no heap and at the head of no sticky queue *)
InNoQueue(hs, st, t) ==
    /\ \A h \in HeapIdx : \A i \in Slots : hs[h].tasks[i] # t
    /\ \A w \in Workers : st[w] # t

(* C11: no enqueue_task(t) of a non-sticky task loses t: when the call     *)
(* returns t is stored in a heap, or the failed insertion was reported;    *)
(* a full heap never makes enqueue_task drop t silently.  (Under           *)
(* SpecSpawn.)                                                             *)
C11_EnqueueNeverDrops == \A t \in Tasks : "dropped" \notin gh.enq[t]

(* C12: every step of jl_task_spawn(t, sticky, detach) returns -1 for a    *)
(* NULL t and touches no queue; returns -2 only when a heap is full, with  *)
(* the heaps unchanged, t in no queue and the caller back in its program   *)
(* without a yield; and otherwise returns 0 with t stored in one more slot *)
(* of a heap that was not full, at priority the worker's id.  (Under       *)
(* SpecSpawn.)                                                             *)
C12_SpawnReturnCodes ==
    [][\A w \in Workers : TaskSpawn(w) =>
         LET t == OpArg(w)
             me == wk[w].cur
             rc == gh'.rc[me]
             full == {h \in HeapIdx : heaps[h].ntasks >= tasks_per_heap}
         IN /\ rc \in {0 - 1, 0 - 2, 0}
            /\ (rc = 0 - 1) <=> ~task[t].exists
            /\ rc = 0 - 1 => heaps' = heaps /\ sticky' = sticky /\ task' = task
            /\ rc = 0 - 2 =>
                  /\ full # {}
                  /\ heaps' = heaps /\ sticky' = sticky
                  /\ InNoQueue(heaps', sticky', t)
                  /\ wk'[w] = [wk[w] EXCEPT !.ip = @ + 1]
            /\ rc = 0 =>
                  \E h \in HeapIdx \ full :
                    /\ heaps'[h].ntasks = heaps[h].ntasks + 1
                    /\ \E i \in Slots : heaps'[h].tasks[i] = t
                    /\ \A h2 \in HeapIdx \ {h} : heaps'[h2] = heaps[h2]
                    /\ task'[t].prio = w
                    /\ heaps'[h].prio <= w]_vars

(* the spawn of an existing task on a machine with a full heap returned -2 *)
C12_SpawnFoundHeapFull ==
    /\ gh.rc[Main] = 0 - 2
    /\ task[2].exists
    /\ InNoQueue(heaps, sticky, 2)
    /\ \E w \in Workers : wk[w].cur = Main /\ wk[w].pc = "body" /\ wk[w].ip = 3

(* C13: when jl_task_new_multi has returned NULL, the arrivers and the     *)
(* reducers on the free lists are the ones that were there before the      *)
(* call: nothing it allocated is kept.  (Under Spec.)                      *)
C13_FailedNewMultiFreesTrees ==
    gh.nmfail => (FreeSet(arrp) = gh.nmpre[1] /\ FreeSet(redp) = gh.nmpre[2])

(* C14: when a call of jl_task_new_multi with n grains and `count` is      *)
(* over, every grain i < n has been created with the range                 *)
(* [start_i, end_i), start_0 = 0, start_(i+1) = end_i, of length           *)
(* count div n + (1 if i < count mod n else 0), and the last range ends at *)
(* count; the grains with an empty range are created too.  (Under          *)
(* SpecSplit.)                                                             *)
C14_GrainRanges ==
    \A w \in Workers :
        loc[w].pc \in {"nm_ret", "crash"} =>
            LET f == loc[w] IN
            /\ Len(f.grains) = f.n
            /\ \A k \in 1 .. f.n :
                 /\ f.grains[k].start = (IF k = 1 THEN 0 ELSE f.grains[k - 1].end)
                 /\ f.grains[k].end - f.grains[k].start =
                       (f.count \div f.n) + (IF k - 1 < f.count % f.n THEN 1 ELSE 0)
            /\ f.grains[f.n].end = f.count

(* the d-ary heap order of heap h over the task table tk *)
HeapOrdered(hs, tk, h) ==
    \A i \in Slots :
        (0 < i /\ i < hs[h].ntasks) =>
            /\ hs[h].tasks[i] # NULL
            /\ hs[h].tasks[(i - 1) \div heap_d] # NULL
            /\ tk[hs[h].tasks[(i - 1) \div heap_d]].prio <= tk[hs[h].tasks[i]].prio

(* C17: after any sequence of multiq_insert and multiq_deletemin, every    *)
(* heap whose lock is free is in d-ary heap order, d = 8: for 0 < i < n    *)
(* the priority of tasks[(i-1)/8] is at most that of tasks[i]; sift_up and *)
(* the sift_down that swaps with every child not above the node restore    *)
(* it, with equal priorities too.  (Under SpecHeap.)                       *)
C17_HeapOrder ==
    \A h \in HeapIdx : heaps[h].lock = 0 - 1 => HeapOrdered(heaps, task, h)

(* a multiq_deletemin on the full heap 0 moved the last task to the root,  *)
(* and sift_down took it down through slot 1 to slot 9                     *)
C17_SiftedDownTwoLevels ==
    /\ loc[0].pc = "heap" /\ loc[0].op = "deletemin" /\ loc[0].ops = 1
    /\ heaps[0].ntasks = tasks_per_heap - 1
    /\ heaps[0].tasks[heap_d + 1] = FirstFiller + tasks_per_heap - 1
    /\ \E i \in Slots : i < heaps[0].ntasks /\ task[heaps[0].tasks[i]].prio = 0

(* C15: a multiq_insert whose heap already holds tasks_per_heap tasks      *)
(* returns non-zero and leaves that heap's task array, count and summary   *)
(* and every other heap as they were, with the heap's lock released.       *)
(* (Under SpecMultiq.)                                                     *)
C15_FullHeapInsertFails ==
    [][\A w \in Workers :
         (InsStore(w) /\ heaps[loc[w].rn].ntasks >= tasks_per_heap) =>
            /\ loc'[w].pc = "mq_idle" /\ loc'[w].rc # 0
            /\ heaps[loc[w].rn].lock = w
            /\ heaps' = [heaps EXCEPT ![loc[w].rn].lock = 0 - 1]]_vars

(* an insert came back from the full heap 0 with -1 *)
C15_InsertMetFullHeap ==
    \E w \in Workers :
        /\ loc[w].pc = "mq_idle" /\ loc[w].op = "insert" /\ loc[w].rc = 0 - 1
        /\ heaps[0].ntasks = tasks_per_heap /\ heaps[0].lock = 0 - 1
        /\ ~InHeap(heaps, loc[w].t)

(* C18: whenever a heap's lock is free (so whenever a worker acquires it)  *)
(* and the heap has n > 0, its summary prio is the priority of tasks[0]:   *)
(* insert and delete_min bring the summary up to date before they release  *)
(* the lock.  (Under SpecMultiq.)                                          *)
C18_SummaryCurrentUnderLock ==
    \A h \in HeapIdx :
        (heaps[h].lock = 0 - 1 /\ heaps[h].ntasks > 0) =>
            (heaps[h].tasks[0] \in Tasks /\ heaps[h].prio = task[heaps[h].tasks[0]].prio)

(* C19: under any interleaving of inserts and delete_mins, a heap with     *)
(* n = 0 whose lock is free has the summary INT16_MAX, delete_min never    *)
(* gets to its extraction on an empty heap, and a delete_min that          *)
(* committed returns a task.  (Under SpecMultiq.)                          *)
C19_EmptyHeapSummary ==
    /\ \A h \in HeapIdx :
         (heaps[h].lock = 0 - 1 /\ heaps[h].ntasks = 0) => heaps[h].prio = INT16_MAX
    /\ \A w \in Workers : loc[w].pc = "del_commit" => heaps[loc[w].rn].ntasks > 0

(* C20: in every state every heap has 0 <= n <= tasks_per_heap, tasks in   *)
(* the slots [0, n) and NULL in the slots [n, tasks_per_heap); no call     *)
(* takes n below 0 or touches a slot outside the array.  (Under            *)
(* SpecMultiq.)                                                            *)
C20_HeapBounds ==
    \A h \in HeapIdx :
        /\ 0 <= heaps[h].ntasks /\ heaps[h].ntasks <= tasks_per_heap
        /\ \A i \in Slots :
             IF i < heaps[h].ntasks THEN heaps[h].tasks[i] \in Tasks
             ELSE heaps[h].tasks[i] = NULL

(* the workers arriver_alloc has handed element e to *)
PoolOwners(e) == {w \in Workers : e \in loc[w].held}

(* C16: no element of the arriver pool is handed out to two owners; and    *)
(* whenever no arriver_free is between its exchange and its store, every   *)
(* element is either on the free list or handed out, and none is both      *)
C16_PoolElementsFreeOrOwned ==
    /\ \A e \in DOMAIN arrp.pool : Cardinality(PoolOwners(e)) <= 1
    /\ (\A w \in Workers : loc[w].pc # "free_store") =>
         \A e \in DOMAIN arrp.pool : (e \in FreeSet(arrp)) # (PoolOwners(e) # {})

(* what a read of the counter c can yield *)
CounterReads(c) == IF c = UNINIT THEN Garbage ELSE {c}

(* C21: every counter of every arriver on the free list, so of every       *)
(* arriver arriver_alloc is about to hand out, reads 0, from               *)
(* synctreepool_init on and after every arriver_free.  (Under SpecPool.)   *)
C21_FreeArriversAreZeroed ==
    \A e \in FreeSet(arrp) : \A j \in DOMAIN arrp.pool[e].tree :
        \A c \in CounterReads(arrp.pool[e].tree[j]) : c = 0

(* the slots of the heaps that hold task t *)
HeapSlotsOf(hs, t) == {<<h, i>> \in HeapIdx \X Slots : hs[h].tasks[i] = t}

(* the tasks of the sticky queue with this head: the walk along next *)
RECURSIVE StickyChain(_, _, _)
StickyChain(tk, pt, fuel) ==
    IF pt = NULL \/ fuel = 0 THEN {}
    ELSE {pt} \cup StickyChain(tk, tk[pt].next, fuel - 1)

(* the workers whose sticky queue holds task t *)
StickyQueuesOf(tk, st, t) == {w \in Workers : t \in StickyChain(tk, st[w], NTasks)}

(* C22: every task is in at most one slot of the heaps and in at most one  *)
(* sticky queue, never in a heap and a sticky queue at once, and a task    *)
(* that is a worker's current task is in neither.  (Under Spec.)           *)
C22_TaskInAtMostOneQueue ==
    \A t \in Tasks :
        /\ Cardinality(HeapSlotsOf(heaps, t)) <= 1
        /\ Cardinality(StickyQueuesOf(task, sticky, t)) <= 1
        /\ ~(HeapSlotsOf(heaps, t) # {} /\ StickyQueuesOf(task, sticky, t) # {})
        /\ Executing(t) => (HeapSlotsOf(heaps, t) = {} /\ StickyQueuesOf(task, sticky, t) = {})

(* the heaps whose lock worker w holds *)
LocksHeld(w) == {h \in HeapIdx : heaps[h].lock = w}

(* C23: no worker holds two heap locks at once, and a worker that is in no *)
(* call of multiq_insert or multiq_deletemin, so after every return of     *)
(* either, holds none.  (Under SpecMultiq.)                                *)
C23_HeapLocks ==
    \A w \in Workers :
        /\ Cardinality(LocksHeld(w)) <= 1
        /\ loc[w].pc = "mq_idle" => LocksHeld(w) = {}

(* a multiq_deletemin holds a lock and is about to find the summary       *)
(* changed, and the other worker's multiq_deletemin has returned a task    *)
C23_MismatchUnderLock ==
    \E w \in Workers, v \in Workers :
        /\ loc[w].pc = "mq_idle" /\ loc[w].op = "deletemin" /\ loc[w].t # NULL
        /\ loc[v].pc = "del_check" /\ LocksHeld(v) = {loc[v].rn}
        /\ loc[v].prio # heaps[loc[v].rn].prio

(* the tasks that k steps along next visit from t, in order *)
RECURSIVE GrainChain(_, _, _)
GrainChain(tk, t, k) ==
    IF k = 0 \/ t = NULL THEN << >> ELSE <<t>> \o GrainChain(tk, tk[t].next, k - 1)

(* C24: building the chain in jl_task_new_multi stores through no null     *)
(* pointer; from every parent it returned, the next pointers visit         *)
(* G = GRAIN_K * jl_n_threads distinct tasks with grain_num 0 .. G-1 in    *)
(* that order, every one after the first with the parent as its parent;    *)
(* and no jl_task_spawn_multi returns -3.  (Under Spec.)                   *)
C24_SiblingChain ==
    /\ ~(\E w \in Workers : /\ wk[w].pc = "crash" /\ wk[w].cur # NULL
                            /\ wk[w].ip <= Len(Body(wk[w].cur))
                            /\ Body(wk[w].cur)[wk[w].ip][1] = "new_multi")
    /\ \A p \in Tasks :
         (task[p].exists /\ task[p].grain_num = 0) =>
            LET c == GrainChain(task, p, NGrains) IN
            /\ Len(c) = NGrains
            /\ \A i \in 1 .. Len(c) : \A j \in 1 .. Len(c) : c[i] = c[j] => i = j
            /\ \A i \in 1 .. Len(c) : task[c[i]].grain_num = i - 1
            /\ \A i \in 2 .. Len(c) : task[c[i]].parent = p
    /\ \A t \in Tasks : gh.rc[t] # 0 - 3

(* the grains of the fan-out that grain t belongs to *)
Siblings(t) ==
    {g \in Tasks : task[g].exists /\ task[g].grain_num >= 0 /\ task[g].parent = task[t].parent}

(* the trees grain t was given are on the free lists of their pools *)
TreesFree(t) ==
    /\ task[t].arr \in FreeSet(arrp)
    /\ task[t].red # 0 - 1 => task[t].red \in FreeSet(redp)

(* C25: the arriver of a fan-out, and its reducer when there is one, are   *)
(* back in their pools once every grain has left sync_grains; the grain    *)
(* that frees them got LAST, frees them when every grain has made its      *)
(* last increment, and finds them not yet freed; and no step of a grain    *)
(* that got NOT_LAST changes a tree.  (Under SpecGrains.)                  *)
C25_TreesFreedOnceByLast ==
    /\ [](\A t \in Tasks :
            (/\ task[t].exists /\ task[t].grain_num >= 0
             /\ \A g \in Siblings(t) : gh.verdict[g] # ""
             /\ \A w \in Workers : wk[w].pc # "sg_last")
            => TreesFree(t))
    /\ [][\A w \in Workers :
            /\ SgLast(w) =>
                 /\ gh.verdict[wk[w].cur] = "LAST"
                 /\ \A g \in Siblings(wk[w].cur) : gh.verdict[g] # ""
                 /\ task[wk[w].cur].arr \notin FreeSet(arrp)
                 /\ task[wk[w].cur].red # 0 - 1 => task[wk[w].cur].red \notin FreeSet(redp)
            /\ (/\ wk[w].cur # NULL
                /\ gh.verdict[wk[w].cur] = "NOT_LAST"
                /\ wk'[w] # wk[w])
               => (arrp' = arrp /\ redp' = redp)]_vars

====
